---- MODULE Spec2Model ----
(***************************************************************************)
(* A model of chariot (elysium-os/chariot): the recipe resolver of         *)
(* src/src/config.c and the build orchestrator, dependency staging and     *)
(* image composition of src/src/main.c.                                    *)
(*                                                                         *)
(* Strings that are only compared for equality (recipe names) are TLA+     *)
(* strings.  Strings that are ordered by strcmp (image package names) are  *)
(* sequences of byte values.  A pointer to a recipe is the index of the    *)
(* recipe in config->recipes; the null pointer is NULL.                    *)
(***************************************************************************)
EXTENDS Integers, Sequences, FiniteSets, TLC

VARIABLES
    config,          \* config_t: the flat recipe array (config->recipes)
    cfg_pc,          \* where config_read is: "parsed", "returned", "exit"
    argv,            \* the positional arguments of this invocation
    status,          \* recipe->status of every recipe
    forced_recipes,  \* main's forced_recipes list
    main_pc,         \* position of main
    main_i,          \* index of main's loop over forced_recipes
    stack,           \* the active process_recipe calls, innermost last
    recipe_dirs,     \* <cache>/<namespace>/<name>: absent or its contents
    deps_dirs,       \* <cache>/deps/{source,host,target}
    sets,            \* <cache>/sets: the directories below it
    params,          \* params_t: the options of this invocation
    options,         \* the options getopt_long returns for this invocation, in order
    config_file,     \* the file at config_path: whether it exists, what it declares
    run,             \* number of the current invocation against this cache
    calls,           \* history: every process_recipe call that returned
    started,         \* history: stage executor entries per recipe, this run
    log,             \* history: container commands executed in this run
    image_of,        \* history: the last setup_recipe_state result per recipe
                     \*   (gathered: the sorted image_deps, installed: the list
                     \*   install_deps filled, one entry per copied dependency)
    previous,        \* history: the cache and the built recipes when this run began
    config_path,     \* main's config_path: the path config_read is given
    opened,          \* history: the paths parse_file was called with, in order
    patches          \* <cache>/patches: the names of the files in it

vars == <<config, cfg_pc, argv, status, forced_recipes, main_pc, main_i, stack,
          recipe_dirs, deps_dirs, sets, params, options, config_file, run, calls, started,
          log, image_of, previous,
                   config_path, opened, patches>>

-----------------------------------------------------------------------------
(* lib.h *)

LIB_STATUS_FAIL == 0
LIB_STATUS_OK == 1

LIB_OK(STATUS) == STATUS = LIB_STATUS_OK

NULL == 0

\* A char * that is NULL (identifiers and blocks the parser returns are
\* never NULL; an absent optional field keeps its NULL initialiser).
NULL_STR == "NULL"

\* the terminating byte of a C string
NUL == 0

\* A char * that is NULL where the model holds the string as a sequence of
\* byte values (the shell blocks): the one sequence that is no C string, a
\* NUL byte before the end.
NULL_TEXT == <<NUL>>

-----------------------------------------------------------------------------
(* recipe.h: the recipe model *)

RECIPE_NAMESPACE_SOURCE == "source"
RECIPE_NAMESPACE_HOST == "host"
RECIPE_NAMESPACE_TARGET == "target"

Namespaces == {RECIPE_NAMESPACE_SOURCE, RECIPE_NAMESPACE_HOST, RECIPE_NAMESPACE_TARGET}

recipe_namespace_stringify(namespace) == namespace

\* recipe_dependency_t as parse_dependencies creates it (resolved = NULL)
recipe_dependency(namespace, name, runtime) ==
    [name |-> name, namespace |-> namespace, runtime |-> runtime, resolved |-> NULL]

\* recipe_t as parse_recipe returns it for a source recipe
source_recipe(name, dependencies, image_dependencies, type, patch, strap) ==
    [namespace |-> RECIPE_NAMESPACE_SOURCE, name |-> name,
     dependencies |-> dependencies, image_dependencies |-> image_dependencies,
     source |-> [type |-> type, patch |-> patch, strap |-> strap],
     host_target |-> [source |-> [name |-> NULL_STR, resolved |-> NULL],
                      configure |-> NULL_TEXT, build |-> NULL_TEXT, install |-> NULL_TEXT]]

\* recipe_t as parse_recipe returns it for a host or target recipe
host_target_recipe(namespace, name, dependencies, image_dependencies, source_name, configure, build, install) ==
    [namespace |-> namespace, name |-> name,
     dependencies |-> dependencies, image_dependencies |-> image_dependencies,
     source |-> [type |-> NULL_STR, patch |-> NULL_STR, strap |-> NULL_TEXT],
     host_target |-> [source |-> [name |-> source_name, resolved |-> NULL],
                      configure |-> configure, build |-> build, install |-> install]]

IsHostTarget(recipe) ==
    recipe.namespace = RECIPE_NAMESPACE_HOST \/ recipe.namespace = RECIPE_NAMESPACE_TARGET

-----------------------------------------------------------------------------
(* config.c: find_recipe and config_read *)

RECURSIVE find_recipe_from(_, _, _, _)
find_recipe_from(recipes, i, namespace, name) ==
    IF i > Len(recipes) THEN NULL
    ELSE IF recipes[i].namespace # namespace THEN find_recipe_from(recipes, i + 1, namespace, name)
    ELSE IF recipes[i].name # name THEN find_recipe_from(recipes, i + 1, namespace, name)
    ELSE i

find_recipe_name_only(recipes, namespace, name) ==
    IF \E i \in 1..Len(recipes) : recipes[i].name = name
    THEN CHOOSE i \in 1..Len(recipes) :
            recipes[i].name = name /\ \A k \in 1..(i - 1) : recipes[k].name # name
    ELSE NULL

find_recipe(recipes, namespace, name) == find_recipe_from(recipes, 1, namespace, name)

\* The body of config_read's outer loop for recipe i: the recipe with its
\* references bound.  A reference that is not found leaves NULL here and
\* makes config_read exit (ConfigReadExits).
resolve_recipe(recipes, i) ==
    LET recipe == recipes[i]
        deps == [j \in 1..Len(recipe.dependencies) |->
                    [recipe.dependencies[j] EXCEPT
                        !.resolved = find_recipe(recipes, recipe.dependencies[j].namespace,
                                                 recipe.dependencies[j].name)]]
        src == IF IsHostTarget(recipe) /\ recipe.host_target.source.name # NULL_STR
               THEN find_recipe(recipes, RECIPE_NAMESPACE_SOURCE, recipe.host_target.source.name)
               ELSE NULL
    IN [recipe EXCEPT !.dependencies = deps, !.host_target.source.resolved = src]

\* config_read calls exit(EXIT_FAILURE): some reference is not found
ConfigReadExits(recipes) ==
    \E i \in 1..Len(recipes) :
        \/ \E j \in 1..Len(recipes[i].dependencies) :
              find_recipe(recipes, recipes[i].dependencies[j].namespace,
                          recipes[i].dependencies[j].name) = NULL
        \/ /\ IsHostTarget(recipes[i])
           /\ recipes[i].host_target.source.name # NULL_STR
           /\ find_recipe(recipes, RECIPE_NAMESPACE_SOURCE, recipes[i].host_target.source.name) = NULL

\* config_read when it returns: the recipe array with every reference bound
config_read(recipes) == [i \in 1..Len(recipes) |-> resolve_recipe(recipes, i)]

-----------------------------------------------------------------------------
(* config.c: parse_file and parse_recipe.  The file is the sequence of its *)
(* recipe declarations, a declaration the namespace and identifier of its  *)
(* header and the fields of its body in the order they are written, a      *)
(* field the keyword match_string matched and the value parsed after it.   *)

Field(key, value) == [key |-> key, value |-> value]

Declaration(namespace, name, fields) == [namespace |-> namespace, name |-> name, fields |-> fields]

PresentFile(declarations) == [exists |-> TRUE, declarations |-> declarations]

MissingFile == [exists |-> FALSE, declarations |-> <<>>]

\* lines 184-191: the types match_string accepts after "type:"
SourceTypes == {"tar.gz", "tar.xz", "git", "local"}

\* lines 169-171: the locals of the source case before its loop; type is
\* not initialised
source_locals ==
    [found_url |-> FALSE, found_b2sum |-> FALSE, found_type |-> FALSE, found_commit |-> FALSE,
     type |-> "uninitialised", patch |-> NULL_STR, strap |-> NULL_TEXT,
     dependencies |-> <<>>, image_dependencies |-> <<>>, exit |-> FALSE]

\* lines 172-220: the loop of the source case over the fields from index k on
RECURSIVE parse_source_fields(_, _, _)
parse_source_fields(fields, k, st) ==
    IF k > Len(fields) THEN st
    ELSE LET f == fields[k] IN
         IF f.key = "url"
         THEN parse_source_fields(fields, k + 1, [st EXCEPT !.found_url = TRUE])
         ELSE IF f.key = "type"
         THEN IF f.value \in SourceTypes
              THEN parse_source_fields(fields, k + 1,
                                       [st EXCEPT !.type = f.value, !.found_type = TRUE])
              ELSE [st EXCEPT !.exit = TRUE]
         ELSE IF f.key = "patch"
         THEN parse_source_fields(fields, k + 1, [st EXCEPT !.patch = f.value])
         ELSE IF f.key = "b2sum"
         THEN parse_source_fields(fields, k + 1, [st EXCEPT !.found_b2sum = TRUE])
         ELSE IF f.key = "commit"
         THEN parse_source_fields(fields, k + 1, [st EXCEPT !.found_commit = TRUE])
         ELSE IF f.key = "dependencies"
         THEN parse_source_fields(fields, k + 1,
                                  [st EXCEPT !.dependencies = f.value.dependencies,
                                             !.image_dependencies = f.value.image_dependencies])
         ELSE IF f.key = "strap"
         THEN parse_source_fields(fields, k + 1, [st EXCEPT !.strap = f.value])
         ELSE [st EXCEPT !.exit = TRUE]

\* the checks after the loop without those on commit (lines 237-244)
source_checks_exit_but_commit(st) ==
    \/ ~st.found_url
    \/ ~st.found_type
    \/ ~st.found_b2sum /\ (st.type = "tar.gz" \/ st.type = "tar.xz")
    \/ st.found_b2sum /\ st.type # "tar.gz" /\ st.type # "tar.xz"

\* lines 221-244: the checks after the loop, each of which exits
source_checks_exit(st) ==
    \/ ~st.found_url
    \/ ~st.found_type
    \/ ~st.found_b2sum /\ (st.type = "tar.gz" \/ st.type = "tar.xz")
    \/ st.found_b2sum /\ st.type # "tar.gz" /\ st.type # "tar.xz"
    \/ st.type = "git" /\ ~st.found_commit
    \/ st.type # "git" /\ st.found_commit

\* lines 248-254: the fields of the host/target case before its loop
host_target_locals ==
    [source_name |-> NULL_STR, configure |-> NULL_TEXT, build |-> NULL_TEXT,
     install |-> NULL_TEXT, dependencies |-> <<>>, image_dependencies |-> <<>>, exit |-> FALSE]

\* lines 255-278: the loop of the host/target case
RECURSIVE parse_host_target_fields(_, _, _)
parse_host_target_fields(fields, k, st) ==
    IF k > Len(fields) THEN st
    ELSE LET f == fields[k] IN
         IF f.key = "source"
         THEN parse_host_target_fields(fields, k + 1, [st EXCEPT !.source_name = f.value])
         ELSE IF f.key = "configure"
         THEN parse_host_target_fields(fields, k + 1, [st EXCEPT !.configure = f.value])
         ELSE IF f.key = "build"
         THEN parse_host_target_fields(fields, k + 1, [st EXCEPT !.build = f.value])
         ELSE IF f.key = "install"
         THEN parse_host_target_fields(fields, k + 1, [st EXCEPT !.install = f.value])
         ELSE IF f.key = "dependencies"
         THEN parse_host_target_fields(fields, k + 1,
                                       [st EXCEPT !.dependencies = f.value.dependencies,
                                                  !.image_dependencies = f.value.image_dependencies])
         ELSE [st EXCEPT !.exit = TRUE]

\* parse_recipe: the recipe, or exit (the process has called exit)
parse_recipe(decl) ==
    IF decl.namespace = RECIPE_NAMESPACE_SOURCE
    THEN LET st == parse_source_fields(decl.fields, 1, source_locals) IN
         IF st.exit \/ source_checks_exit(st)
         THEN [exit |-> TRUE, recipe |-> NULL]
         ELSE [exit |-> FALSE,
               recipe |-> source_recipe(decl.name, st.dependencies, st.image_dependencies,
                                        st.type, st.patch, st.strap)]
    ELSE LET st == parse_host_target_fields(decl.fields, 1, host_target_locals) IN
         IF st.exit
         THEN [exit |-> TRUE, recipe |-> NULL]
         ELSE [exit |-> FALSE,
               recipe |-> host_target_recipe(decl.namespace, decl.name, st.dependencies,
                                             st.image_dependencies, st.source_name,
                                             st.configure, st.build, st.install)]

\* parse_file: the loop of lines 302-332 over the declarations from index
\* k on, recipes being config->recipes so far
RECURSIVE parse_file(_, _, _)
parse_file(declarations, k, recipes) ==
    IF k > Len(declarations) THEN [exit |-> FALSE, recipes |-> recipes]
    ELSE LET parsed == parse_recipe(declarations[k]) IN
         IF parsed.exit THEN [exit |-> TRUE, recipes |-> recipes]
         ELSE parse_file(declarations, k + 1, Append(recipes, parsed.recipe))

-----------------------------------------------------------------------------
(* C strings that are ordered: sequences of byte values *)

\* strcmp(3): the difference of the first bytes that differ, the end of a
\* string being the byte 0
RECURSIVE strcmp(_, _)
strcmp(a, b) ==
    IF a = <<>> /\ b = <<>> THEN 0
    ELSE IF a = <<>> THEN 0 - b[1]
    ELSE IF b = <<>> THEN a[1]
    ELSE IF a[1] # b[1] THEN a[1] - b[1]
    ELSE strcmp(Tail(a), Tail(b))

qsort_strcmp(a, b) == strcmp(a, b)

\* qsort(3) with qsort_strcmp: the array in ascending order of the
\* comparator (here by insertion; the array setup_recipe_state sorts holds
\* no two equal names, so every sorting algorithm gives this result)
RECURSIVE qsort_insert(_, _)
qsort_insert(sorted, x) ==
    IF sorted = <<>> THEN <<x>>
    ELSE IF qsort_strcmp(x, sorted[1]) < 0 THEN <<x>> \o sorted
    ELSE <<sorted[1]>> \o qsort_insert(Tail(sorted), x)

RECURSIVE qsort(_)
qsort(array) ==
    IF array = <<>> THEN <<>>
    ELSE qsort_insert(qsort(SubSeq(array, 1, Len(array) - 1)), array[Len(array)])

\* a sort that is skipped: the array as it was gathered
qsort_skipped(array) == array

\* the sort setup_recipe_state applies to image_deps
sort_image_deps(array) == qsort(array)

\* the names used in the cache layout and as image packages
rootfs == <<114, 111, 111, 116, 102, 115>>
pkg_a == <<97>>
pkg_ab == <<97, 98>>
pkg_b == <<98>>

Range(seq) == {seq[i] : i \in 1..Len(seq)}

-----------------------------------------------------------------------------
(* C strings that are scanned byte by byte (shell blocks, variable names  *)
(* and values, option arguments): sequences of byte values, indexed from  *)
(* 0 as in C by char_at.                                                  *)

\* '@', '(', ')', '?' and '='
CHAR_AT == 64
CHAR_OPEN == 40
CHAR_CLOSE == 41
CHAR_QUESTION == 63
CHAR_EQUALS == 61

\* str[i]; str[strlen(str)] is the terminating NUL
char_at(str, i) == IF i < Len(str) THEN str[i + 1] ELSE NUL

\* &str[i]
string_from(str, i) == SubSeq(str, i + 1, Len(str))

\* tolower(3) in the C locale
tolower(c) == IF c \in 65..90 THEN c + 32 ELSE c

\* strncasecmp(3): the difference of the first bytes that differ ignoring
\* case among the first n, 0 if there is none or the strings end before
RECURSIVE strncasecmp_from(_, _, _, _)
strncasecmp_from(a, b, n, k) ==
    IF k >= n THEN 0
    ELSE LET ca == tolower(char_at(a, k))
             cb == tolower(char_at(b, k))
         IN IF ca # cb THEN ca - cb
            ELSE IF ca = NUL THEN 0
            ELSE strncasecmp_from(a, b, n, k + 1)

strncasecmp(a, b, n) == strncasecmp_from(a, b, n, 0)

\* the names of the built-in variables and the values main.c gives them
\* "thread_count"
name_thread_count == <<116, 104, 114, 101, 97, 100, 95, 99, 111, 117, 110, 116>>
\* "prefix"
name_prefix == <<112, 114, 101, 102, 105, 120>>
\* "sysroot_dir"
name_sysroot_dir == <<115, 121, 115, 114, 111, 111, 116, 95, 100, 105, 114>>
\* "sources_dir"
name_sources_dir == <<115, 111, 117, 114, 99, 101, 115, 95, 100, 105, 114>>
\* "build_dir"
name_build_dir == <<98, 117, 105, 108, 100, 95, 100, 105, 114>>
\* "cache_dir"
name_cache_dir == <<99, 97, 99, 104, 101, 95, 100, 105, 114>>
\* "install_dir"
name_install_dir == <<105, 110, 115, 116, 97, 108, 108, 95, 100, 105, 114>>
\* "source_dir"
name_source_dir == <<115, 111, 117, 114, 99, 101, 95, 100, 105, 114>>
\* "/usr/local"
value_usr_local == <<47, 117, 115, 114, 47, 108, 111, 99, 97, 108>>
\* "/usr"
value_usr == <<47, 117, 115, 114>>
\* "/chariot/sysroot"
value_chariot_sysroot == <<47, 99, 104, 97, 114, 105, 111, 116, 47, 115, 121, 115, 114, 111, 111, 116>>
\* "/chariot/sources"
value_chariot_sources == <<47, 99, 104, 97, 114, 105, 111, 116, 47, 115, 111, 117, 114, 99, 101, 115>>
\* "/chariot/cache"
value_chariot_cache == <<47, 99, 104, 97, 114, 105, 111, 116, 47, 99, 97, 99, 104, 101>>
\* "/chariot/build"
value_chariot_build == <<47, 99, 104, 97, 114, 105, 111, 116, 47, 98, 117, 105, 108, 100>>
\* "/chariot/install"
value_chariot_install == <<47, 99, 104, 97, 114, 105, 111, 116, 47, 105, 110, 115, 116, 97, 108, 108>>
\* "/chariot/source"
value_chariot_source == <<47, 99, 104, 97, 114, 105, 111, 116, 47, 115, 111, 117, 114, 99, 101>>
\* "8"
value_eight == <<56>>

embed_variable(name, value) == [name |-> name, value |-> value]

-----------------------------------------------------------------------------
(* main.c: embed_variables *)

\* the loops of lines 62-67 and 68-73 from index j on: the value of the
\* first variable whose name is the length bytes at name_at, ignoring case;
\* insert (what the caller has so far) if there is none
RECURSIVE embed_lookup(_, _, _, _, _)
embed_lookup(variables, j, name_at, length, insert) ==
    IF j > Len(variables) THEN insert
    ELSE IF length # Len(variables[j].name)
    THEN embed_lookup(variables, j + 1, name_at, length, insert)
    ELSE IF strncasecmp(name_at, variables[j].name, length) # 0
    THEN embed_lookup(variables, j + 1, name_at, length, insert)
    ELSE variables[j].value

\* the scan of lines 47-104 from index i on, with the locals embed and
\* embed_start.  A replacement changes str and leaves i where it is: the
\* scan goes on at i + 1 of the new string.
RECURSIVE embed_scan(_, _, _, _, _, _)
embed_scan(str, i, embed, embed_start, variables, user_variables) ==
    IF i >= Len(str) THEN str
    ELSE IF embed
    THEN IF char_at(str, i) = CHAR_CLOSE
         THEN LET embed_length == i - embed_start + 1
                  optional == char_at(str, i - 1) = CHAR_QUESTION
                  embed_offset == IF optional THEN 4 ELSE 3
                  name_at == string_from(str, embed_start + 2)
                  builtin == embed_lookup(variables, 1, name_at,
                                          embed_length - embed_offset, NULL_TEXT)
                  insert == embed_lookup(user_variables, 1, name_at,
                                         embed_length - embed_offset, builtin)
                  before == SubSeq(str, 1, embed_start)
                  after == string_from(str, embed_start + embed_length)
              IN IF embed_length = 3
                 THEN embed_scan(str, i + 1, TRUE, embed_start, variables, user_variables)
                 ELSE IF insert = NULL_TEXT
                 THEN IF optional
                      THEN embed_scan(before \o after, i + 1, FALSE, embed_start,
                                      variables, user_variables)
                      ELSE NULL_TEXT
                 ELSE embed_scan(before \o insert \o after, i + 1, FALSE, embed_start,
                                 variables, user_variables)
         ELSE embed_scan(str, i + 1, TRUE, embed_start, variables, user_variables)
    ELSE IF char_at(str, i) # CHAR_AT
    THEN embed_scan(str, i + 1, FALSE, embed_start, variables, user_variables)
    ELSE embed_scan(str, i + 2, char_at(str, i + 1) = CHAR_OPEN, i, variables, user_variables)

\* Whether the loop of lines 47-104 from index i on goes round without
\* end.  After a replacement the loop goes on at i + 1 with embed false, and
\* what it does from there depends only on the text from i + 1 on; ahead
\* holds these texts for the replacements made so far.  A replacement that
\* leaves ahead of the index a text that was ahead of it before is followed
\* by the same replacements again, and so on: str grows and the loop does
\* not end.
RECURSIVE embed_repeats(_, _, _, _, _, _, _)
embed_repeats(str, i, embed, embed_start, variables, user_variables, ahead) ==
    IF i >= Len(str) THEN FALSE
    ELSE IF embed
    THEN IF char_at(str, i) = CHAR_CLOSE
         THEN LET embed_length == i - embed_start + 1
                  optional == char_at(str, i - 1) = CHAR_QUESTION
                  embed_offset == IF optional THEN 4 ELSE 3
                  name_at == string_from(str, embed_start + 2)
                  builtin == embed_lookup(variables, 1, name_at,
                                          embed_length - embed_offset, NULL_TEXT)
                  insert == embed_lookup(user_variables, 1, name_at,
                                         embed_length - embed_offset, builtin)
                  before == SubSeq(str, 1, embed_start)
                  after == string_from(str, embed_start + embed_length)
              IN IF embed_length = 3
                 THEN embed_repeats(str, i + 1, TRUE, embed_start, variables,
                                    user_variables, ahead)
                 ELSE IF insert = NULL_TEXT
                 THEN IF optional
                      THEN embed_repeats(before \o after, i + 1, FALSE, embed_start,
                                         variables, user_variables, ahead)
                      ELSE FALSE
                 ELSE \E rest \in {string_from(before \o insert \o after, i + 1)} :
                         \/ rest # <<>> /\ rest \in ahead
                         \/ embed_repeats(before \o insert \o after, i + 1, FALSE,
                                          embed_start, variables, user_variables,
                                          ahead \cup {rest})
         ELSE embed_repeats(str, i + 1, TRUE, embed_start, variables, user_variables, ahead)
    ELSE IF char_at(str, i) # CHAR_AT
    THEN embed_repeats(str, i + 1, FALSE, embed_start, variables, user_variables, ahead)
    ELSE embed_repeats(str, i + 2, char_at(str, i + 1) = CHAR_OPEN, i, variables,
                       user_variables, ahead)

\* embed_variables(original, variable_count, variables, user_variable_count,
\* user_variables): the expanded string, or NULL_TEXT
embed_variables(original, variables, user_variables) ==
    embed_scan(original, 0, FALSE, 0, variables, user_variables)

-----------------------------------------------------------------------------
(* config.c: parse_file, the @import directive; main.c: config_path *)

\* '/'
CHAR_SLASH == 47

\* main.c line 512: "./config.chariot"
config_path_default == <<46, 47, 99, 111, 110, 102, 105, 103, 46, 99, 104, 97, 114, 105, 111, 116>>

\* lines 310-314: the loop over dir_path from i = strlen(dir_path) down to
\* 1: the string is cut at the first '/' met, dir_path[0] is never read,
\* and without a '/' met the string stays whole
RECURSIVE import_dir_scan(_, _)
import_dir_scan(dir_path, i) ==
    IF i = 0 THEN dir_path
    ELSE IF char_at(dir_path, i) # CHAR_SLASH THEN import_dir_scan(dir_path, i - 1)
    ELSE SubSeq(dir_path, 1, i)

\* lines 309-314: dir_path, made of the path of the file being parsed
import_dir_path(path) == import_dir_scan(path, Len(path))

\* LIB_PATH_JOIN(a, b) (lib.c): a and b with exactly one '/' between them
lib_path_join(a, b) ==
    LET ends == {k \in 0..Len(a) : \A m \in (k + 1)..Len(a) : a[m] = CHAR_SLASH}
        starts == {k \in 1..(Len(b) + 1) : \A m \in 1..(k - 1) : b[m] = CHAR_SLASH}
        end == CHOOSE k \in ends : \A m \in ends : k <= m
        start == CHOOSE k \in starts : \A m \in starts : k >= m
    IN SubSeq(a, 1, end) \o <<CHAR_SLASH>> \o SubSeq(b, start, Len(b))

\* lines 309-316: absolute_path, of the path of the file being parsed and
\* the relative_path parse_to_eol read after "@import"
import_absolute_path(path, relative_path) ==
    lib_path_join(import_dir_path(path), relative_path)

-----------------------------------------------------------------------------
(* The cache directory.                                                    *)
(*   recipe_dirs[<<namespace, name>>]  <cache>/<namespace>/<name>          *)
(*   deps_dirs.source/host/target      <cache>/deps/...: what was staged   *)
(*   sets[path]                        the directory <cache>/sets/<path>   *)
(*                                     path a sequence of components       *)

\* a directory that is no root filesystem
PlainDir == [kind |-> "dir", base |-> "none", pkgs |-> {}]

\* a root filesystem: the state of the base image in it and the packages
\* pacman installed into it on top
RootfsDir(base, pkgs) == [kind |-> "rootfs", base |-> base, pkgs |-> pkgs]

\* build/, cache/ and install/ below a recipe directory: what each holds,
\* as the set of the runs whose stage commands wrote into it
EmptySubdirs == [build |-> {}, cache |-> {}, install |-> {}]

AbsentRecipeDir == [exists |-> FALSE, written |-> 0, complete |-> FALSE, sub |-> EmptySubdirs]

EmptyDepsDirs == [source |-> {}, host |-> {}, target |-> {}]

recipe_dir(recipe) == <<recipe_namespace_stringify(recipe.namespace), recipe.name>>

\* lib_path_exists below <cache>/sets: 0 when the path exists, 1 when not
sets_path_exists(fs, path) == IF path \in DOMAIN fs THEN 0 ELSE 1

\* lib_path_delete left out: the directory stays
sets_path_kept(fs, path) == fs

\* lib_path_delete below <cache>/sets: the directory and all below it
sets_path_delete(fs, path) ==
    [p \in {q \in DOMAIN fs : ~(Len(q) >= Len(path) /\ SubSeq(q, 1, Len(path)) = path)} |-> fs[p]]

\* lib_link_recursive(src, dest) when it succeeds: dest and every directory
\* below src exist under dest, the files hard-linked
sets_link_recursive(fs, src, dest) ==
    LET below == {q \in DOMAIN fs : Len(q) >= Len(src) /\ SubSeq(q, 1, Len(src)) = src}
        moved(q) == dest \o SubSeq(q, Len(src) + 1, Len(q))
        parent == SubSeq(dest, 1, Len(dest) - 1)
        new == {moved(q) : q \in below} \cup {parent}
    IN [p \in DOMAIN fs \cup new |->
            IF p \in {moved(q) : q \in below}
            THEN fs[CHOOSE q \in below : moved(q) = p]
            ELSE IF p \in DOMAIN fs THEN fs[p] ELSE PlainDir]

\* pacman --noconfirm -S name in the container rooted at root, exit status 0
sets_pacman_install(fs, root, name) ==
    [fs EXCEPT ![root] = RootfsDir(fs[root].base, fs[root].pkgs \cup {name})]

-----------------------------------------------------------------------------
(* main.c: install_deps *)

\* the second loop of install_deps: the recipe's image dependencies appended
\* to image_deps unless the name is already there (or, in a runtime walk, it
\* is not marked runtime)
RECURSIVE add_image_deps(_, _, _, _)
add_image_deps(recipe, runtime, i, image_deps) ==
    IF i > Len(recipe.image_dependencies) THEN image_deps
    ELSE LET dep == recipe.image_dependencies[i] IN
         IF runtime /\ ~dep.runtime THEN add_image_deps(recipe, runtime, i + 1, image_deps)
         ELSE IF \E j \in 1..Len(image_deps) : strcmp(dep.name, image_deps[j]) = 0
         THEN add_image_deps(recipe, runtime, i + 1, image_deps)
         ELSE add_image_deps(recipe, runtime, i + 1, Append(image_deps, dep.name))

\* the switch of install_deps: lib_path_make/lib_path_copy of the output of
\* dependency d into the scratch directory of its namespace
stage_dependency(cfg, d, dirs) ==
    [dirs EXCEPT ![cfg[d].namespace] = @ \cup {d}]

\* lib_path_copy fails: an error on the way (copy_fails), or nothing to copy
copy_fails_for(cfg, rdirs, d, copy_fails) ==
    d \in copy_fails \/ ~rdirs[recipe_dir(cfg[d])].exists

\* install_deps(recipe, runtime, installed, &image_deps, &count): the walk
\* over the dependencies from index i on.  st holds installed, the local
\* image_deps and the scratch directories; entry is *image_dependencies as
\* the caller passed it, which is what the caller still has when the walk
\* returns LIB_STATUS_FAIL.
RECURSIVE install_deps_from(_, _, _, _, _, _, _, _)
install_deps_from(cfg, rdirs, r, runtime, i, st, entry, copy_fails) ==
    LET recipe == cfg[r] IN
    IF i > Len(recipe.dependencies)
    THEN [status |-> LIB_STATUS_OK, installed |-> st.installed,
          image_deps |-> add_image_deps(recipe, runtime, 1, st.image_deps),
          deps_dirs |-> st.deps_dirs]
    ELSE LET dep == recipe.dependencies[i]
             dependency == dep.resolved
         IN
         IF runtime /\ ~dep.runtime
         THEN install_deps_from(cfg, rdirs, r, runtime, i + 1, st, entry, copy_fails)
         ELSE IF dependency \in Range(st.installed)
         THEN install_deps_from(cfg, rdirs, r, runtime, i + 1, st, entry, copy_fails)
         ELSE IF copy_fails_for(cfg, rdirs, dependency, copy_fails)
         THEN [status |-> LIB_STATUS_FAIL, installed |-> st.installed,
               image_deps |-> entry, deps_dirs |-> st.deps_dirs]
         ELSE LET st1 == [installed |-> Append(st.installed, dependency),
                          image_deps |-> st.image_deps,
                          deps_dirs |-> stage_dependency(cfg, dependency, st.deps_dirs)]
                  res == install_deps_from(cfg, rdirs, dependency, TRUE, 1, st1,
                                           st1.image_deps, copy_fails)
              IN IF res.status < 0
                 THEN [status |-> LIB_STATUS_FAIL, installed |-> res.installed,
                       image_deps |-> entry, deps_dirs |-> res.deps_dirs]
                 ELSE install_deps_from(cfg, rdirs, r, runtime, i + 1,
                                        [installed |-> res.installed,
                                         image_deps |-> res.image_deps,
                                         deps_dirs |-> res.deps_dirs],
                                        entry, copy_fails)

install_deps(cfg, rdirs, r, runtime, st, copy_fails) ==
    install_deps_from(cfg, rdirs, r, runtime, 1, st, st.image_deps, copy_fails)

-----------------------------------------------------------------------------
(* main.c: setup_recipe_state *)

\* what the environment does to one call of setup_recipe_state: the
\* dependencies whose copy fails, and the layer (index into the sorted
\* image_deps, 0 for none) whose creation fails, in lib_link_recursive
\* ("link") or in pacman ("pacman")
SetupEnvironments(deps, layers) ==
    [copy_fails : SUBSET deps, layer : 0..layers, kind : {"link", "pacman"}]

\* line 219 left out: every layer is taken to be missing
layer_missing_always(fs, set_path) == TRUE

\* line 219: lib_path_exists(set_path) != 0
layer_missing(fs, set_path) == sets_path_exists(fs, set_path) # 0

\* the loop of setup_recipe_state over the sorted image_deps from index i
\* on, final_set_path being the layer reached so far; made is history: the
\* layers the loop has linked and installed the package of
RECURSIVE compose_layers(_, _, _, _, _, _)
compose_layers(fs, image_deps, i, final_set_path, env, made) ==
    IF i > Len(image_deps)
    THEN [status |-> LIB_STATUS_OK, path |-> final_set_path, sets |-> fs, made |-> made]
    ELSE LET set_path == Append(final_set_path, image_deps[i]) IN
         IF layer_missing(fs, set_path)
         THEN LET parent_root == Append(final_set_path, rootfs)
                  set_root == Append(set_path, rootfs)
              IN
              IF sets_path_exists(fs, parent_root) # 0 \/ (env.layer = i /\ env.kind = "link")
              THEN [status |-> LIB_STATUS_FAIL, path |-> <<>>,
                    sets |-> sets_path_delete(fs, set_path), made |-> made]
              ELSE IF env.layer = i /\ env.kind = "pacman"
              THEN [status |-> LIB_STATUS_FAIL, path |-> <<>>,
                    sets |-> sets_path_delete(sets_link_recursive(fs, parent_root, set_root), set_path),
                    made |-> made]
              ELSE compose_layers(
                      sets_pacman_install(sets_link_recursive(fs, parent_root, set_root),
                                          set_root, image_deps[i]),
                      image_deps, i + 1, set_path, env, made \cup {set_path})
         ELSE compose_layers(fs, image_deps, i + 1, set_path, env, made)

\* setup_recipe_state(recipe, &image_deps_path, params)
setup_recipe_state(cfg, rdirs, ddirs, fs, r, env) ==
    LET staged == install_deps(cfg, rdirs, r, FALSE,
                               [installed |-> <<>>, image_deps |-> <<>>, deps_dirs |-> ddirs],
                               env.copy_fails)
    IN IF ~LIB_OK(staged.status)
       THEN [status |-> LIB_STATUS_FAIL, path |-> <<>>, sets |-> fs,
             deps_dirs |-> staged.deps_dirs, image_deps |-> <<>>,
             installed |-> staged.installed, made |-> {}]
       ELSE LET image_deps == sort_image_deps(staged.image_deps)
                composed == compose_layers(fs, image_deps, 1, <<>>, env, {})
            IN [status |-> composed.status, path |-> composed.path, sets |-> composed.sets,
                deps_dirs |-> staged.deps_dirs, image_deps |-> image_deps,
                installed |-> staged.installed, made |-> composed.made]

-----------------------------------------------------------------------------
(* main.c: install_rootfs *)

\* install_rootfs(rootfs_path, params).  outcome is what the environment
\* lets it do: "make" (lib_path_make fails), "download" (wget | tar exits
\* non-zero), "setup" (a command in the container exits non-zero), "ok".
install_rootfs(fs, outcome) ==
    IF outcome = "make" THEN [status |-> LIB_STATUS_FAIL, sets |-> fs]
    ELSE IF outcome = "ok"
    THEN [status |-> LIB_STATUS_OK,
          sets |-> [p \in DOMAIN fs \cup {<<rootfs>>} |->
                        IF p = <<rootfs>> THEN RootfsDir("installed", {}) ELSE fs[p]]]
    ELSE [status |-> LIB_STATUS_FAIL,
          sets |-> [p \in DOMAIN fs \cup {<<rootfs>>} |->
                        IF p = <<rootfs>> THEN RootfsDir("partial", {}) ELSE fs[p]]]

RootfsOutcomes == {"make", "download", "setup", "ok"}

-----------------------------------------------------------------------------
(* main.c: process_recipe, the stage executors (the switch on namespace) *)

\* a step: a library call ("lib"), a command in the container ("exec") or an
\* expansion ("embed"); text is the expanded shell command of a shell stage
Step(kind, name) == [kind |-> kind, name |-> name, text |-> <<>>]

\* the archive extracted before its sum is checked
fetch_steps_unverified(type) ==
    IF type = "tar.gz" \/ type = "tar.xz"
    THEN <<Step("lib", "write b2sums.txt"), Step("exec", "wget"),
           Step("exec", IF type = "tar.gz" THEN "tar --gzip" ELSE "tar --zstd"),
           Step("exec", "b2sum")>>
    ELSE IF type = "git"
    THEN <<Step("exec", "git clone"), Step("exec", "git fetch"), Step("exec", "git checkout")>>
    ELSE <<Step("lib", "exists url"), Step("lib", "copy url")>>

\* the fetch steps of a source recipe by recipe->source.type
fetch_steps(type) ==
    IF type = "tar.gz" \/ type = "tar.xz"
    THEN <<Step("lib", "write b2sums.txt"), Step("exec", "wget"), Step("exec", "b2sum"),
           Step("exec", IF type = "tar.gz" THEN "tar --gzip" ELSE "tar --zstd")>>
    ELSE IF type = "git"
    THEN <<Step("exec", "git clone"), Step("exec", "git fetch"), Step("exec", "git checkout")>>
    ELSE <<Step("lib", "exists url"), Step("lib", "copy url")>>

\* line 391: the built-in variables of the strap block
strap_variables == <<embed_variable(name_sources_dir, value_chariot_sources)>>

\* lines 402-403: prefix
stage_prefix(namespace) ==
    IF namespace = RECIPE_NAMESPACE_HOST THEN value_usr_local ELSE value_usr

\* embed_variable_count not cut: source_dir offered with or without a source
stage_variables_uncut(stage, prefix, has_source) ==
    <<embed_variable(name_prefix, prefix),
      embed_variable(name_sysroot_dir, value_chariot_sysroot),
      embed_variable(name_sources_dir, value_chariot_sources),
      embed_variable(name_cache_dir, value_chariot_cache),
      embed_variable(name_build_dir, value_chariot_build)>>
    \o (IF stage = "build" THEN <<embed_variable(name_thread_count, value_eight)>>
        ELSE IF stage = "install" THEN <<embed_variable(name_install_dir, value_chariot_install)>>
        ELSE <<>>)
    \o <<embed_variable(name_source_dir, value_chariot_source)>>

\* lines 456-482: stages[i].embed_variables, cut to embed_variable_count
\* (source_dir, kept at the bottom, is dropped when there is no source)
stage_variables(stage, prefix, has_source) ==
    <<embed_variable(name_prefix, prefix),
      embed_variable(name_sysroot_dir, value_chariot_sysroot),
      embed_variable(name_sources_dir, value_chariot_sources),
      embed_variable(name_cache_dir, value_chariot_cache),
      embed_variable(name_build_dir, value_chariot_build)>>
    \o (IF stage = "build" THEN <<embed_variable(name_thread_count, value_eight)>>
        ELSE IF stage = "install" THEN <<embed_variable(name_install_dir, value_chariot_install)>>
        ELSE <<>>)
    \o (IF has_source THEN <<embed_variable(name_source_dir, value_chariot_source)>> ELSE <<>>)

\* one shell stage: embed_variables, then container_context_exec_shell of
\* what it returned; a step of kind "loop" is a call of embed_variables that
\* does not return
shell_steps(name, command, variables, user_variables) ==
    IF command = NULL_TEXT THEN <<>>
    ELSE IF embed_repeats(command, 0, FALSE, 0, variables, user_variables, {})
    THEN <<[kind |-> "loop", name |-> name, text |-> NULL_TEXT]>>
    ELSE LET cmd == embed_variables(command, variables, user_variables) IN
         <<[kind |-> "embed", name |-> name, text |-> cmd],
           [kind |-> "exec", name |-> name, text |-> cmd]>>

\* the steps process_recipe takes for a recipe from the switch on its
\* namespace on, in order, when none fails
stage_steps(recipe, prm) ==
    IF recipe.namespace = RECIPE_NAMESPACE_SOURCE
    THEN <<Step("lib", "clean recipe_dir"), Step("lib", "make src")>>
         \o fetch_steps(recipe.source.type)
         \o (IF recipe.source.patch # NULL_STR
             THEN <<Step("lib", "exists patch"), Step("exec", "patch")>> ELSE <<>>)
         \o shell_steps("strap", recipe.source.strap, strap_variables, prm.user_embed)
    ELSE <<Step("lib", "clean build")>>
         \o (IF prm.clean_build_cache THEN <<Step("lib", "clean cache")>> ELSE <<>>)
         \o <<Step("lib", "clean install"), Step("lib", "make build"),
              Step("lib", "make cache"), Step("lib", "make install")>>
         \o shell_steps("configure", recipe.host_target.configure,
                        stage_variables("configure", stage_prefix(recipe.namespace),
                                        recipe.host_target.source.resolved # NULL),
                        prm.user_embed)
         \o shell_steps("build", recipe.host_target.build,
                        stage_variables("build", stage_prefix(recipe.namespace),
                                        recipe.host_target.source.resolved # NULL),
                        prm.user_embed)
         \o shell_steps("install", recipe.host_target.install,
                        stage_variables("install", stage_prefix(recipe.namespace),
                                        recipe.host_target.source.resolved # NULL),
                        prm.user_embed)

\* the steps the environment can make fail: the library calls and the
\* commands (0: none of them)
Failures(steps) == {0} \cup {k \in 1..Len(steps) : steps[k].kind \in {"lib", "exec"}}

\* the first call of embed_variables that does not return (0: every call
\* returns)
first_loop(steps) ==
    LET loops == {k \in 1..Len(steps) : steps[k].kind = "loop"}
    IN IF loops = {} THEN 0 ELSE CHOOSE k \in loops : \A m \in loops : k <= m

\* no failure is acted upon: every step is taken
first_failure_ignored(steps, fail_at, rootfs_exists, patch_exists) == 0

\* the first step that fails: the one the environment makes fail (fail_at),
\* the test of line 370 for a patch file that does not exist, an expansion
\* that returned NULL, or the first command started in a root filesystem
\* that does not exist
first_failure(steps, fail_at, rootfs_exists, patch_exists) ==
    LET failing == {k \in 1..Len(steps) :
                        \/ k = fail_at
                        \/ ~patch_exists /\ steps[k].name = "exists patch"
                        \/ steps[k].kind = "embed" /\ steps[k].text = NULL_TEXT
                        \/ ~rootfs_exists /\ steps[k].kind = "exec"}
    IN IF failing = {} THEN 0 ELSE CHOOSE k \in failing : \A m \in failing : k <= m

\* container_mount_t, and the arguments of container_context_mounts_add
\* after cc: host path, path in the container, read_only.  A host path is
\* the sequence of its components below the cache directory.
container_mount(src_path, dest_path, read_only) ==
    [src_path |-> src_path, dest_path |-> dest_path, read_only |-> read_only]

\* the working directory and the mount list of cc when the command called
\* name is executed for recipe: cc is made with "/root" (line 282); a
\* source recipe fetches with its directory mounted (line 300), patches
\* after lines 362-364 and 374, and runs strap after lines 383-387; a host
\* or target recipe runs its stages after lines 442-449
container_context(recipe, name) ==
    LET src_mount == container_mount(recipe_dir(recipe) \o <<"src">>, "/chariot/source", FALSE)
        \* lines 285-287: the three mounts of the scratch directories
        deps_mounts == <<container_mount(<<"deps", "source">>, "/chariot/sources", FALSE),
                         container_mount(<<"deps", "host">>, "/usr/local", FALSE),
                         container_mount(<<"deps", "target">>, "/chariot/sysroot", FALSE)>>
    IN IF recipe.namespace = RECIPE_NAMESPACE_SOURCE
       THEN IF name = "patch"
            THEN [cwd |-> "/chariot/source",
                  mounts |-> <<src_mount, container_mount(<<"patches">>, "/chariot/patches", FALSE)>>]
            ELSE IF name = "strap"
            THEN [cwd |-> "/chariot/source", mounts |-> deps_mounts \o <<src_mount>>]
            ELSE [cwd |-> "/root",
                  mounts |-> <<container_mount(recipe_dir(recipe), "/chariot/source", FALSE)>>]
       ELSE [cwd |-> "/chariot/build",
             mounts |-> deps_mounts
                        \o (IF recipe.host_target.source.resolved # NULL
                            THEN <<container_mount(<<RECIPE_NAMESPACE_SOURCE,
                                                     recipe.host_target.source.name, "src">>,
                                                   "/chariot/source", FALSE)>>
                            ELSE <<>>)
                        \o <<container_mount(recipe_dir(recipe) \o <<"build">>, "/chariot/build", FALSE),
                             container_mount(recipe_dir(recipe) \o <<"cache">>, "/chariot/cache", FALSE),
                             container_mount(recipe_dir(recipe) \o <<"install">>, "/chariot/install", FALSE)>>]

\* build/ and install/ left as they are
prepare_subdirs_kept(sub, clean_build_cache) == sub

\* lines 408-440: build/ and install/ are cleaned, cache/ is cleaned with
\* --clean-cache, and the three are made if they are not there
prepare_subdirs(sub, clean_build_cache) ==
    [build |-> {}, cache |-> IF clean_build_cache THEN {} ELSE sub.cache, install |-> {}]

\* the container commands among steps[1..last], the last one exiting with
\* last_exit, each with the working directory and the mounts it ran with
\* and with what build/, cache/ and install/ held when the first of them
\* started
RECURSIVE executed(_, _, _, _, _, _, _)
executed(r, recipe, prepared, steps, k, last, last_exit) ==
    IF k > last THEN <<>>
    ELSE (IF steps[k].kind = "exec"
          THEN <<[recipe |-> r, cmd |-> steps[k].name, text |-> steps[k].text,
                  exit |-> IF k = last THEN last_exit ELSE 0,
                  cc |-> container_context(recipe, steps[k].name),
                  dirs |-> prepared]>>
          ELSE <<>>)
         \o executed(r, recipe, prepared, steps, k + 1, last, last_exit)

-----------------------------------------------------------------------------
(* Bounds of the model *)

\* invocations of the tool against one cache directory
MaxRuns == 2

\* positional arguments of an invocation
MaxArgs == 2

-----------------------------------------------------------------------------
(* main.c: process_recipe as a stack of calls.  A frame is a call of       *)
(* process_recipe: its recipe, where it is (pc), and the index i of its    *)
(* loop over the dependencies.                                             *)

\* a call that begins at the loop over the dependencies (lines 250-252 left
\* out)
Frame_without_source(r, st) ==
    [recipe |-> r, pc |-> "deps", i |-> 1,
     failed_before |-> {d \in DOMAIN st : st[d].failed}]

\* failed_before is history: the recipes marked failed when the call was made
Frame(r, st) ==
    [recipe |-> r, pc |-> "source", i |-> 0,
     failed_before |-> {d \in DOMAIN st : st[d].failed}]

NoImage ==
    [status |-> LIB_STATUS_FAIL, path |-> <<>>, gathered |-> <<>>, installed |-> <<>>,
     made |-> {}, valid |-> FALSE]

\* what a caller in process_recipe does with the status of the call it
\* made for its source or a dependency: if(!LIB_OK(...)) return FAIL
child_failed(s) == ~LIB_OK(s)

\* the test of main's loop on the status of a top-level call: break
main_breaks_on_fail(s) == ~LIB_OK(s)

main_breaks(s) == s < 0

\* a call record of the history
Call(frame, s, cause, st, rdirs, depth) ==
    [recipe |-> frame.recipe, status |-> s, cause |-> cause, depth |-> depth,
     failed |-> st[frame.recipe].failed,
     dir_exists |-> rdirs[recipe_dir(config[frame.recipe])].exists,
     failed_before |-> frame.failed_before]

\* The top call of stk returns s for the reason cause: the stack and the
\* call records once every caller that returns in turn has returned.
RECURSIVE unwind(_, _, _, _, _)
unwind(stk, s, cause, st, rdirs) ==
    LET frame == stk[Len(stk)]
        rest == SubSeq(stk, 1, Len(stk) - 1)
        rec == Call(frame, s, cause, st, rdirs, Len(stk))
    IN IF rest = <<>> THEN [stack |-> <<>>, calls |-> <<rec>>, status |-> s]
       ELSE IF child_failed(s)
       THEN LET up == unwind(rest, LIB_STATUS_FAIL, "child", st, rdirs)
            IN [stack |-> up.stack, calls |-> <<rec>> \o up.calls, status |-> up.status]
       ELSE LET caller == rest[Len(rest)]
                resumed == IF caller.pc = "source_wait"
                           THEN [caller EXCEPT !.pc = "deps", !.i = 1]
                           ELSE [caller EXCEPT !.pc = "deps", !.i = @ + 1]
            IN [stack |-> [rest EXCEPT ![Len(rest)] = resumed], calls |-> <<rec>>, status |-> s]

\* the effect of a return on the stack, the history and main's loop
Return(s, cause, st, rdirs) ==
    LET u == unwind(stack, s, cause, st, rdirs) IN
    /\ stack' = u.stack
    /\ calls' = calls \o u.calls
    /\ IF u.stack = <<>>
       THEN IF main_breaks(u.status)
            THEN main_pc' = "done" /\ main_i' = main_i
            ELSE main_pc' = main_pc /\ main_i' = main_i + 1
       ELSE main_pc' = main_pc /\ main_i' = main_i

Top == stack[Len(stack)]

\* lines 250-252: the source recipe of a host/target recipe is processed first
ProcessSource ==
    /\ stack # <<>> /\ Top.pc = "source"
    /\ LET recipe == config[Top.recipe] IN
       IF IsHostTarget(recipe) /\ recipe.host_target.source.resolved # NULL
       THEN stack' = Append([stack EXCEPT ![Len(stack)].pc = "source_wait"],
                            Frame(recipe.host_target.source.resolved, status))
       ELSE stack' = [stack EXCEPT ![Len(stack)].pc = "deps", ![Len(stack)].i = 1]
    /\ UNCHANGED <<config, cfg_pc, argv, status, forced_recipes, main_pc, main_i,
                   recipe_dirs, deps_dirs, sets, params, options, config_file, run, calls, started, log,
                   image_of, previous,
                   config_path, opened, patches>>

\* lines 253-256: each resolved dependency is processed, in order
ProcessDependency ==
    /\ stack # <<>> /\ Top.pc = "deps"
    /\ Top.i <= Len(config[Top.recipe].dependencies)
    /\ stack' = Append([stack EXCEPT ![Len(stack)].pc = "deps_wait"],
                       Frame(config[Top.recipe].dependencies[Top.i].resolved, status))
    /\ UNCHANGED <<config, cfg_pc, argv, status, forced_recipes, main_pc, main_i,
                   recipe_dirs, deps_dirs, sets, params, options, config_file, run, calls, started, log,
                   image_of, previous,
                   config_path, opened, patches>>

\* line 261 when nothing is memoized: the incremental skip alone
skips_without_memo(st, recipe_dir_exists) ==
    recipe_dir_exists /\ ~st.invalidated

\* line 261 when the directory is not looked at
skips_without_dir(st, recipe_dir_exists) ==
    st.built \/ st.failed

\* line 261: the recipe is not processed (again)
skips(st, recipe_dir_exists) ==
    (st.built \/ st.failed) \/ (recipe_dir_exists /\ ~st.invalidated)

\* lines 258-262: memoization and the incremental skip
ProcessCheck ==
    /\ stack # <<>> /\ Top.pc = "deps"
    /\ Top.i > Len(config[Top.recipe].dependencies)
    /\ LET r == Top.recipe
           recipe_dir_exists == recipe_dirs[recipe_dir(config[r])].exists
       IN IF skips(status[r], recipe_dir_exists)
          THEN Return(LIB_STATUS_OK,
                      IF status[r].built \/ status[r].failed THEN "memo" ELSE "skip",
                      status, recipe_dirs)
          ELSE /\ stack' = [stack EXCEPT ![Len(stack)].pc = "clean"]
               /\ UNCHANGED <<main_pc, main_i, calls>>
    /\ UNCHANGED <<config, cfg_pc, argv, status, forced_recipes,
                   recipe_dirs, deps_dirs, sets, params, options, config_file, run, started, log,
                   image_of, previous,
                   config_path, opened, patches>>

\* lines 268-271 left out: the scratch directories are left as they are
clean_deps_dirs_skipped(dirs, clean_fails) == dirs

\* lib_path_clean of deps/source, deps/host and deps/target in this order,
\* the clean_fails-th failing (0: none): the directories before it are empty
clean_deps_dirs(dirs, clean_fails) ==
    [source |-> IF clean_fails = 1 THEN dirs.source ELSE {},
     host |-> IF clean_fails \in {1, 2} THEN dirs.host ELSE {},
     target |-> IF clean_fails \in {1, 2, 3} THEN dirs.target ELSE {}]

\* lines 264-271: the scratch directories are cleaned (lib_path_clean may fail)
ProcessClean ==
    /\ stack # <<>> /\ Top.pc = "clean"
    /\ \E clean_fails \in 0..3 :
          /\ deps_dirs' = clean_deps_dirs(deps_dirs, clean_fails)
          /\ IF clean_fails # 0
             THEN Return(LIB_STATUS_FAIL, "clean", status, recipe_dirs)
             ELSE /\ stack' = [stack EXCEPT ![Len(stack)].pc = "setup"]
                  /\ UNCHANGED <<main_pc, main_i, calls>>
    /\ UNCHANGED <<config, cfg_pc, argv, status, forced_recipes,
                   recipe_dirs, sets, params, options, config_file, run, started, log, image_of, previous,
                   config_path, opened, patches>>

\* the environments of one call of setup_recipe_state for recipe r
SetupEnvs(r) ==
    SetupEnvironments({config[r].dependencies[j].resolved : j \in 1..Len(config[r].dependencies)},
                      Len(config[r].image_dependencies))

\* lines 273-279: dependencies staged and the image composed
ProcessSetup ==
    /\ stack # <<>> /\ Top.pc = "setup"
    /\ \E env \in SetupEnvs(Top.recipe) :
          LET r == Top.recipe
              res == setup_recipe_state(config, recipe_dirs, deps_dirs, sets, r, env)
          IN /\ (env.layer = 0 => env.kind = "link")
             /\ deps_dirs' = res.deps_dirs
             /\ sets' = res.sets
             /\ image_of' = [image_of EXCEPT ![r] =
                                [status |-> res.status, path |-> res.path,
                                 gathered |-> res.image_deps,
                                 installed |-> res.installed, made |-> res.made,
                                 valid |-> TRUE]]
             /\ IF ~LIB_OK(res.status)
                THEN Return(LIB_STATUS_FAIL, "setup", status, recipe_dirs)
                ELSE /\ stack' = [stack EXCEPT ![Len(stack)].pc = "stage"]
                     /\ UNCHANGED <<main_pc, main_i, calls>>
    /\ UNCHANGED <<config, cfg_pc, argv, status, forced_recipes,
                   recipe_dirs, params, options, config_file, run, started, log, previous,
                   config_path, opened, patches>>

\* lines 281-507: the stage executor of the recipe's namespace, then
\* built = true, or at terminate failed = true and lib_path_delete(recipe_dir)
ProcessStages ==
    /\ stack # <<>> /\ Top.pc = "stage"
    /\ LET r == Top.recipe
           recipe == config[r]
           rootfs_path == Append(image_of[r].path, rootfs)
       IN \E steps \in {stage_steps(recipe, params)} :
          \E fail_at \in Failures(steps), delete_fails \in {FALSE} :
            LET k == first_failure(steps, fail_at, sets_path_exists(sets, rootfs_path) = 0,
                                   recipe.source.patch \in patches)
                loop == first_loop(steps)
                prepared == IF IsHostTarget(recipe)
                            THEN prepare_subdirs(recipe_dirs[recipe_dir(recipe)].sub,
                                                 params.clean_build_cache)
                            ELSE EmptySubdirs
                st == IF k = 0 THEN [status EXCEPT ![r].built = TRUE]
                      ELSE [status EXCEPT ![r].failed = TRUE]
                dir == IF k = 0
                       THEN [exists |-> TRUE, written |-> run, complete |-> TRUE,
                             sub |-> IF IsHostTarget(recipe)
                                     THEN [d \in DOMAIN prepared |-> prepared[d] \cup {run}]
                                     ELSE EmptySubdirs]
                       ELSE IF delete_fails
                       THEN [exists |-> TRUE, written |-> run, complete |-> FALSE, sub |-> prepared]
                       ELSE AbsentRecipeDir
                rdirs == [recipe_dirs EXCEPT ![recipe_dir(recipe)] = dir]
            IN /\ (k = 0 => ~delete_fails)
               /\ started' = [started EXCEPT ![r] = @ + 1]
               /\ IF loop # 0 /\ (k = 0 \/ k > loop)
                  THEN \* the steps before the call that does not return are
                       \* taken; process_recipe stays in embed_variables
                       /\ log' = log \o executed(r, recipe, prepared, steps, 1, loop - 1, 0)
                       /\ recipe_dirs' = [recipe_dirs EXCEPT ![recipe_dir(recipe)] =
                                             [exists |-> TRUE, written |-> run,
                                              complete |-> FALSE, sub |-> prepared]]
                       /\ stack' = [stack EXCEPT ![Len(stack)].pc = "embed"]
                       /\ UNCHANGED <<status, main_pc, main_i, calls>>
                  ELSE /\ log' = log \o executed(r, recipe, prepared, steps, 1,
                                                 IF k = 0 THEN Len(steps) ELSE k,
                                                 IF k = 0 THEN 0 ELSE 1)
                       /\ status' = st
                       /\ recipe_dirs' = rdirs
                       /\ Return(IF k = 0 THEN LIB_STATUS_OK ELSE LIB_STATUS_FAIL,
                                 IF k = 0 THEN "built" ELSE "terminate", st, rdirs)
    /\ UNCHANGED <<config, cfg_pc, argv, forced_recipes, deps_dirs, sets, params, options, config_file, run,
                   image_of, previous,
                   config_path, opened, patches>>

-----------------------------------------------------------------------------
(* main.c: main *)

\* lines 630-637: the recipes of the configuration an argument names
named_recipes(cfg, arg) ==
    SelectSeq([i \in 1..Len(cfg) |-> i],
              LAMBDA i : cfg[i].namespace = arg.namespace /\ cfg[i].name = arg.identifier)

\* lines 612-639: forced_recipes, in command-line order
RECURSIVE forced_from(_, _, _)
forced_from(cfg, args, k) ==
    IF k > Len(args) THEN <<>>
    ELSE named_recipes(cfg, args[k]) \o forced_from(cfg, args, k + 1)

\* line 634 left out: a forced recipe is listed but not invalidated
invalidate_nothing(st, forced) == st

\* line 634: status.invalidated = true for every forced recipe
invalidate(st, forced) ==
    [r \in DOMAIN st |-> IF r \in Range(forced) THEN [st[r] EXCEPT !.invalidated = TRUE] ELSE st[r]]

\* lines 511-525: the locals of main before the options are read
DefaultParams ==
    [clean_build_cache |-> FALSE, wipe_container |-> FALSE, thread_count |-> 32,
     user_embed |-> <<>>]

\* lines 532-535: the values getopt_long returns for --var, --wipe-container,
\* --clean-cache and --thread-count
OPT_VAR == 1004
OPT_WIPE_CONTAINER == 1005
OPT_CLEAN_CACHE == 1006
OPT_THREAD_COUNT == 1007

Option(val, optarg) == [val |-> val, optarg |-> optarg]

\* lines 567-574: the names compared with the key of --var
ReservedNames ==
    <<name_thread_count, name_prefix, name_sysroot_dir, name_sources_dir,
      name_build_dir, name_cache_dir, name_install_dir, name_source_dir>>

\* lines 558-559: the number of bytes of optarg before '=' or the end
RECURSIVE key_length_from(_, _)
key_length_from(optarg, i) ==
    IF char_at(optarg, i) # NUL /\ char_at(optarg, i) # CHAR_EQUALS
    THEN key_length_from(optarg, i + 1)
    ELSE i

\* the test of lines 566-575
reserved(optarg, key_length) ==
    \E k \in DOMAIN ReservedNames : strncasecmp(optarg, ReservedNames[k], key_length) = 0

\* case 1004 (lines 557-585): --var
option_var(prm, optarg) ==
    LET key_length == key_length_from(optarg, 0) IN
    IF char_at(optarg, key_length) # CHAR_EQUALS \/ char_at(optarg, key_length + 1) = NUL
    THEN prm
    ELSE IF reserved(optarg, key_length)
    THEN prm
    ELSE [prm EXCEPT !.user_embed =
             Append(@, embed_variable(SubSeq(optarg, 1, key_length),
                                      string_from(optarg, key_length + 1)))]

\* strtol(optarg, NULL, 10) on a string of an optional sign and decimal
\* digits: the digits read from index i on, value being their number so far
RECURSIVE strtol_digits(_, _, _)
strtol_digits(optarg, i, value) ==
    IF char_at(optarg, i) \in 48..57
    THEN strtol_digits(optarg, i + 1, 10 * value + (char_at(optarg, i) - 48))
    ELSE value

strtol(optarg) ==
    IF char_at(optarg, 0) = 45 THEN 0 - strtol_digits(optarg, 1, 0)
    ELSE IF char_at(optarg, 0) = 43 THEN strtol_digits(optarg, 1, 0)
    ELSE strtol_digits(optarg, 0, 0)

\* case 1007 (lines 550-556): --thread-count; a value of 0 is reported and
\* stored all the same; the conversion of the long to size_t keeps a value
\* that is not negative, and the arguments given here have no sign
option_thread_count(prm, optarg) ==
    [prm EXCEPT !.thread_count = strtol(optarg)]

\* the loop of lines 541-587 over the options from index k on
RECURSIVE getopt_loop(_, _, _)
getopt_loop(prm, opts, k) ==
    IF k > Len(opts) THEN prm
    ELSE LET opt == opts[k].val
             optarg == opts[k].optarg
         IN getopt_loop(IF opt = OPT_VAR THEN option_var(prm, optarg)
                        ELSE IF opt = OPT_WIPE_CONTAINER THEN [prm EXCEPT !.wipe_container = TRUE]
                        ELSE IF opt = OPT_CLEAN_CACHE THEN [prm EXCEPT !.clean_build_cache = TRUE]
                        ELSE IF opt = OPT_THREAD_COUNT THEN option_thread_count(prm, optarg)
                        ELSE prm,
                        opts, k + 1)

\* lines 541-587: the options are read into params
MainGetopt ==
    /\ main_pc = "getopt"
    /\ params' = getopt_loop(params, options, 1)
    /\ main_pc' = "config"
    /\ UNCHANGED <<config, cfg_pc, argv, status, forced_recipes, main_i, stack, recipe_dirs,
                   deps_dirs, sets, options, config_file, run, calls, started, log,
                   image_of, previous,
                   config_path, opened, patches>>

\* the status parse_recipe gives a recipe
FreshStatus == [built |-> FALSE, failed |-> FALSE, invalidated |-> FALSE]

\* config_read, first part (line 349): parse_file, which fills
\* config->recipes or exits
ParseFile ==
    /\ main_pc = "config" /\ cfg_pc = "file" /\ config_file.exists
    /\ LET res == parse_file(config_file.declarations, 1, <<>>) IN
       IF res.exit
       THEN /\ cfg_pc' = "exit" /\ main_pc' = "exit"
            /\ UNCHANGED <<config, status, started, image_of>>
       ELSE /\ cfg_pc' = "parsed" /\ main_pc' = main_pc
            /\ config' = res.recipes
            /\ status' = [r \in 1..Len(res.recipes) |-> FreshStatus]
            /\ started' = [r \in 1..Len(res.recipes) |-> 0]
            /\ image_of' = [r \in 1..Len(res.recipes) |-> NoImage]
    /\ UNCHANGED <<argv, forced_recipes, main_i, stack, recipe_dirs, deps_dirs, sets,
                   params, options, config_file, run, calls, log, previous,
                   config_path, opened, patches>>

\* lines 600-604: without a file at config_path main returns EXIT_FAILURE;
\* else config_read (its loop of lines 351-368) returns or exits
MainConfigRead ==
    /\ main_pc = "config"
    /\ cfg_pc = "parsed" \/ ~config_file.exists
    /\ IF ~config_file.exists
       THEN /\ cfg_pc' = "missing" /\ main_pc' = "exit" /\ config' = config
       ELSE IF ConfigReadExits(config)
       THEN /\ cfg_pc' = "exit" /\ main_pc' = "exit" /\ config' = config
       ELSE /\ cfg_pc' = "returned" /\ main_pc' = "rootfs" /\ config' = config_read(config)
    /\ UNCHANGED <<argv, status, forced_recipes, main_i, stack, recipe_dirs, deps_dirs,
                   sets, params, options, config_file, run, calls, started, log, image_of, previous,
                   config_path, opened, patches>>

\* lines 606-610: the base image is wiped on request and installed if absent
MainInstallRootfs ==
    /\ main_pc = "rootfs"
    /\ LET wiped == IF params.wipe_container /\ sets_path_exists(sets, <<rootfs>>) = 0
                    THEN sets_path_delete(sets, <<>>) ELSE sets
       IN IF sets_path_exists(wiped, <<rootfs>>) # 0
          THEN \E outcome \in RootfsOutcomes :
                  LET res == install_rootfs(wiped, outcome) IN
                  /\ sets' = res.sets
                  /\ main_pc' = IF res.status < 0 THEN "exit" ELSE "force"
          ELSE sets' = wiped /\ main_pc' = "force"
    /\ UNCHANGED <<config, cfg_pc, argv, status, forced_recipes, main_i, stack, recipe_dirs,
                   deps_dirs, params, options, config_file, run, calls, started, log, image_of, previous,
                   config_path, opened, patches>>

\* lines 612-639: the forced recipes are collected and invalidated
MainForce ==
    /\ main_pc = "force"
    /\ forced_recipes' = forced_from(config, argv, 1)
    /\ status' = invalidate(status, forced_recipes')
    /\ main_pc' = "loop" /\ main_i' = 1
    /\ UNCHANGED <<config, cfg_pc, argv, stack, recipe_dirs, deps_dirs, sets, params, options, config_file, run,
                   calls, started, log, image_of, previous,
                   config_path, opened, patches>>

\* line 641: process_recipe is called on the next forced recipe
MainProcess ==
    /\ main_pc = "loop" /\ stack = <<>>
    /\ main_i <= Len(forced_recipes)
    /\ stack' = <<Frame(forced_recipes[main_i], status)>>
    /\ UNCHANGED <<config, cfg_pc, argv, status, forced_recipes, main_pc, main_i, recipe_dirs,
                   deps_dirs, sets, params, options, config_file, run, calls, started, log, image_of, previous,
                   config_path, opened, patches>>

\* line 643: return EXIT_SUCCESS
MainReturn ==
    /\ main_pc = "loop" /\ stack = <<>>
    /\ main_i > Len(forced_recipes)
    /\ main_pc' = "done"
    /\ UNCHANGED <<config, cfg_pc, argv, status, forced_recipes, main_i, stack, recipe_dirs,
                   deps_dirs, sets, params, options, config_file, run, calls, started, log, image_of, previous,
                   config_path, opened, patches>>

\* the value main returns, or the process exits with
EXIT_SUCCESS == 0
EXIT_FAILURE == 1

\* the exit status of the process once main_pc is "done" or "exit"
exit_status == IF main_pc = "exit" THEN EXIT_FAILURE ELSE EXIT_SUCCESS

\* The tool is invoked again with the same arguments on the same
\* configuration and cache directory.
NewRun ==
    /\ main_pc \in {"done", "exit"}
    /\ run < MaxRuns
    /\ run' = run + 1
    /\ previous' = [dirs |-> recipe_dirs, built |-> {r \in DOMAIN status : status[r].built}]
    /\ UNCHANGED <<config_path, opened, patches>>
    /\ status' = [r \in DOMAIN status |-> FreshStatus]
    /\ forced_recipes' = <<>> /\ main_pc' = "getopt" /\ main_i' = 0
    /\ params' = DefaultParams
    /\ calls' = <<>> /\ log' = <<>>
    /\ started' = [r \in DOMAIN started |-> 0]
    /\ image_of' = [r \in DOMAIN image_of |-> NoImage]
    /\ cfg_pc' = IF config_file.exists THEN "parsed" ELSE "file"
    /\ UNCHANGED <<config, argv, stack, recipe_dirs, deps_dirs, sets, options, config_file>>

-----------------------------------------------------------------------------
(* The configurations and invocations of the orchestrator specification:   *)
(* three recipes a, b, c declared in this order, a recipe depending only   *)
(* on recipes declared before it (so that the graph is acyclic, which      *)
(* process_recipe requires), each dependency being marked runtime or not.  *)

RecipeNames == <<"a", "b", "c">>

\* the shell blocks of the recipes
\* "./bootstrap"
block_strap == <<46, 47, 98, 111, 111, 116, 115, 116, 114, 97, 112>>
\* "make -j@(thread_count)"
block_build == <<109, 97, 107, 101, 32, 45, 106, 64, 40, 116, 104, 114, 101, 97, 100, 95, 99, 111, 117, 110, 116, 41>>
\* "make install DESTDIR=@(install_dir)"
block_install == <<109, 97, 107, 101, 32, 105, 110, 115, 116, 97, 108, 108, 32, 68, 69, 83, 84, 68, 73, 82, 61, 64, 40, 105, 110, 115, 116, 97, 108, 108, 95, 100, 105, 114, 41>>

NamespaceOrders ==
    {<<RECIPE_NAMESPACE_HOST, RECIPE_NAMESPACE_SOURCE, RECIPE_NAMESPACE_TARGET>>}

Edges == {<<2, 1>>, <<3, 1>>, <<3, 2>>}

EdgeKinds == {"none", "build", "runtime"}

image_dependency(name, runtime) == [name |-> name, runtime |-> runtime]

\* the image packages of the three recipes
ImageDepsOf(i) ==
    IF i = 1 THEN <<>>
    ELSE IF i = 2 THEN <<image_dependency(pkg_b, TRUE), image_dependency(pkg_a, FALSE)>>
    ELSE <<image_dependency(pkg_a, FALSE)>>

RECURSIVE DepsBelow(_, _, _, _)
DepsBelow(order, edge, i, j) ==
    IF j >= i THEN <<>>
    ELSE (IF edge[<<i, j>>] = "none" THEN <<>>
          ELSE <<recipe_dependency(order[j], RecipeNames[j], edge[<<i, j>>] = "runtime")>>)
         \o DepsBelow(order, edge, i, j + 1)

\* the source recipe declared before recipe i, if any
SourceBelow(order, i) ==
    IF \E j \in 1..(i - 1) : order[j] = RECIPE_NAMESPACE_SOURCE
    THEN RecipeNames[CHOOSE j \in 1..(i - 1) : order[j] = RECIPE_NAMESPACE_SOURCE]
    ELSE NULL_STR

ParsedRecipe(order, edge, src, i) ==
    IF order[i] = RECIPE_NAMESPACE_SOURCE
    THEN source_recipe(RecipeNames[i], DepsBelow(order, edge, i, 1), ImageDepsOf(i),
                       "tar.gz", NULL_STR, block_strap)
    ELSE host_target_recipe(order[i], RecipeNames[i], DepsBelow(order, edge, i, 1),
                            ImageDepsOf(i),
                            IF src[i] THEN SourceBelow(order, i) ELSE NULL_STR,
                            NULL_TEXT, block_build, block_install)

ParsedConfigs ==
    {[i \in 1..3 |-> ParsedRecipe(order, edge, src, i)] :
        order \in NamespaceOrders, edge \in [Edges -> EdgeKinds], src \in [1..3 -> BOOLEAN]}

SeqsUpTo(S, n) == UNION {[1..m -> S] : m \in 0..n}

Argument(namespace, identifier) == [namespace |-> namespace, identifier |-> identifier]

\* positional arguments: the three recipes
Arguments ==
    {Argument(order[i], RecipeNames[i]) : order \in NamespaceOrders, i \in 1..3}

\* an argument that names no recipe of the configuration
UnknownArgument == Argument(RECIPE_NAMESPACE_HOST, "zz")

\* the command lines: up to MaxArgs names of recipes, or a name and an
\* unknown name
CommandLines ==
    SeqsUpTo(Arguments, MaxArgs) \cup {<<UnknownArgument, a>> : a \in Arguments}

\* the file at config_path declares one of the configurations (config is
\* then what parse_file makes of it), or there is no file
Init ==
    /\ \/ /\ config_file = PresentFile(<<>>)
          /\ config \in ParsedConfigs
          /\ cfg_pc = "parsed"
       \/ /\ config_file = MissingFile
          /\ config = <<>>
          /\ cfg_pc = "file"
    /\ argv \in CommandLines
    /\ status = [r \in 1..Len(config) |-> FreshStatus]
    /\ forced_recipes = <<>>
    /\ main_pc = "getopt" /\ main_i = 0
    /\ stack = <<>>
    /\ recipe_dirs = [key \in Namespaces \X Range(RecipeNames) |-> AbsentRecipeDir]
    /\ deps_dirs = EmptyDepsDirs
    /\ sets = <<>>
    /\ params = DefaultParams
    /\ options = <<>>
    /\ run = 1
    /\ calls = <<>> /\ log = <<>>
    /\ started = [r \in 1..Len(config) |-> 0]
    /\ image_of = [r \in 1..Len(config) |-> NoImage]
    /\ previous = [dirs |-> recipe_dirs, built |-> {}]
    /\ config_path = config_path_default
    /\ opened = <<>>
    /\ patches = {}

Next ==
    \/ MainGetopt
    \/ MainConfigRead
    \/ MainInstallRootfs
    \/ MainForce
    \/ MainProcess
    \/ MainReturn
    \/ ProcessSource
    \/ ProcessDependency
    \/ ProcessCheck
    \/ ProcessClean
    \/ ProcessSetup
    \/ ProcessStages
    \/ NewRun

Spec == Init /\ [][Next]_vars

-----------------------------------------------------------------------------
(* The resolver on its own: config_read on every recipe array parse_file   *)
(* can leave, of up to MaxCfgRecipes recipes named a or b in any           *)
(* namespace, each with up to MaxCfgDeps dependencies and, for host and    *)
(* target recipes, an optional source.  References may name a recipe       *)
(* declared later, a recipe declared twice, or no recipe.                  *)

MaxCfgRecipes == 2

MaxCfgDeps == 2

CfgNames == {"a", "b"}

CfgDependencies ==
    SeqsUpTo({recipe_dependency(ns, n, FALSE) : ns \in Namespaces, n \in CfgNames}, MaxCfgDeps)

CfgRecipes ==
    {source_recipe(n, deps, <<>>, "git", NULL_STR, NULL_TEXT) :
        n \in CfgNames, deps \in CfgDependencies}
    \cup
    {host_target_recipe(ns, n, deps, <<>>, src, NULL_TEXT, NULL_TEXT, NULL_TEXT) :
        ns \in {RECIPE_NAMESPACE_HOST, RECIPE_NAMESPACE_TARGET}, n \in CfgNames,
        deps \in CfgDependencies, src \in CfgNames \cup {NULL_STR}}

\* the state of a process that has parsed recipes and done nothing else
Parsed(recipes) ==
    /\ config = recipes
    /\ cfg_pc = "parsed"
    /\ argv = <<>>
    /\ status = [r \in 1..Len(recipes) |-> FreshStatus]
    /\ forced_recipes = <<>>
    /\ main_pc = "config" /\ main_i = 0
    /\ stack = <<>>
    /\ recipe_dirs = [key \in Namespaces \X Range(RecipeNames) |-> AbsentRecipeDir]
    /\ deps_dirs = EmptyDepsDirs
    /\ sets = <<>>
    /\ params = DefaultParams
    /\ options = <<>>
    /\ config_file = PresentFile(<<>>)
    /\ run = 1
    /\ calls = <<>> /\ log = <<>>
    /\ started = [r \in 1..Len(recipes) |-> 0]
    /\ image_of = [r \in 1..Len(recipes) |-> NoImage]
    /\ previous = [dirs |-> recipe_dirs, built |-> {}]
    /\ config_path = config_path_default
    /\ opened = <<>>
    /\ patches = {}

InitConfig == \E recipes \in SeqsUpTo(CfgRecipes, MaxCfgRecipes) : Parsed(recipes)

NextConfig == MainConfigRead

SpecConfig == InitConfig /\ [][NextConfig]_vars

-----------------------------------------------------------------------------
(* Image composition on its own: setup_recipe_state called any number of   *)
(* times, for two recipes without dependencies whose image dependency      *)
(* lists are any lists of up to MaxImageDeps package names, on the cache   *)
(* as install_rootfs left it.                                              *)

MaxImageDeps == 3

ImagePackages == {pkg_a, pkg_ab, rootfs}

ImageDependencies ==
    {[i \in DOMAIN names |-> image_dependency(names[i], FALSE)] :
        names \in SeqsUpTo(ImagePackages, MaxImageDeps)}

InitImage ==
    \E deps_a \in ImageDependencies, deps_b \in ImageDependencies, outcome \in RootfsOutcomes :
        /\ config = config_read(<<source_recipe("a", <<>>, deps_a, "git", NULL_STR, NULL_TEXT),
                                  source_recipe("b", <<>>, deps_b, "git", NULL_STR, NULL_TEXT)>>)
        /\ cfg_pc = "returned"
        /\ argv = <<>>
        /\ status = [r \in 1..2 |-> FreshStatus]
        /\ forced_recipes = <<>>
        /\ main_pc = "loop" /\ main_i = 1
        /\ stack = <<>>
        /\ recipe_dirs = [key \in Namespaces \X Range(RecipeNames) |-> AbsentRecipeDir]
        /\ deps_dirs = EmptyDepsDirs
        /\ sets = install_rootfs(<<>>, outcome).sets
        /\ params = DefaultParams
        /\ options = <<>>
        /\ config_file = PresentFile(<<>>)
        /\ run = 1
        /\ calls = <<>> /\ log = <<>>
        /\ started = [r \in 1..2 |-> 0]
        /\ image_of = [r \in 1..2 |-> NoImage]
        /\ previous = [dirs |-> recipe_dirs, built |-> {}]
        /\ config_path = config_path_default
        /\ opened = <<>>
        /\ patches = {}

\* setup_recipe_state for recipe r, as process_recipe calls it (line 274)
ImageSetup ==
    \E r \in 1..2 : \E env \in SetupEnvs(r) :
        LET res == setup_recipe_state(config, recipe_dirs, deps_dirs, sets, r, env) IN
        /\ (env.layer = 0 => env.kind = "link")
        /\ deps_dirs' = res.deps_dirs
        /\ sets' = res.sets
        /\ image_of' = [image_of EXCEPT ![r] =
                           [status |-> res.status, path |-> res.path,
                            gathered |-> res.image_deps,
                            installed |-> res.installed, made |-> res.made,
                            valid |-> TRUE]]
        /\ UNCHANGED <<config, cfg_pc, argv, status, forced_recipes, main_pc, main_i, stack,
                       recipe_dirs, params, options, config_file, run, calls, started, log, previous,
                   config_path, opened, patches>>

NextImage == ImageSetup

SpecImage == InitImage /\ [][NextImage]_vars

-----------------------------------------------------------------------------
(* The parser on its own: config_read on a file that declares one source   *)
(* recipe whose body is any sequence of up to MaxFields fields, among them *)
(* a type the parser does not know and a keyword it does not know.         *)

MaxFields == 4

SourceFields ==
    {Field("url", "u"), Field("b2sum", "h"), Field("commit", "c"), Field("licence", "l")}
    \cup {Field("type", t) : t \in SourceTypes \cup {"zip"}}

InitParse ==
    \E fields \in SeqsUpTo(SourceFields, MaxFields) :
        /\ config_file = PresentFile(<<Declaration(RECIPE_NAMESPACE_SOURCE, "a", fields)>>)
        /\ config = <<>>
        /\ cfg_pc = "file"
        /\ argv = <<>>
        /\ status = <<>>
        /\ forced_recipes = <<>>
        /\ main_pc = "config" /\ main_i = 0
        /\ stack = <<>>
        /\ recipe_dirs = [key \in Namespaces \X Range(RecipeNames) |-> AbsentRecipeDir]
        /\ deps_dirs = EmptyDepsDirs
        /\ sets = <<>>
        /\ params = DefaultParams
        /\ options = <<>>
        /\ run = 1
        /\ calls = <<>> /\ log = <<>>
        /\ started = <<>>
        /\ image_of = <<>>
        /\ previous = [dirs |-> recipe_dirs, built |-> {}]
        /\ config_path = config_path_default
        /\ opened = <<>>
        /\ patches = {}

NextParse ==
    \/ ParseFile
    \/ MainConfigRead

SpecParse == InitParse /\ [][NextParse]_vars

-----------------------------------------------------------------------------
(* The @import directive on its own: the file at config_path, the default *)
(* or the argument of --config (main.c line 543), holds an @import line,  *)
(* the file that line names holds the next one, up to MaxImports lines.   *)

MaxImports == 2

\* "c"
path_c == <<99>>
\* "/c"
path_root_c == <<47, 99>>
\* "d/c"
path_d_c == <<100, 47, 99>>
\* "/d/c"
path_root_d_c == <<47, 100, 47, 99>>

ConfigPaths == {config_path_default, path_c, path_root_c, path_d_c, path_root_d_c}

\* "i"
import_i == <<105>>
\* "e/i"
import_e_i == <<101, 47, 105>>
\* "../i"
import_up_i == <<46, 46, 47, 105>>

ImportLines == {import_i, import_e_i, import_up_i}

InitImport ==
    \E path \in ConfigPaths, lines \in SeqsUpTo(ImportLines, MaxImports) :
        /\ config_file = [exists |-> TRUE, declarations |-> <<>>, imports |-> lines]
        /\ config = <<>>
        /\ cfg_pc = "file"
        /\ argv = <<>>
        /\ status = <<>>
        /\ forced_recipes = <<>>
        /\ main_pc = "config" /\ main_i = 0
        /\ stack = <<>>
        /\ recipe_dirs = [key \in Namespaces \X Range(RecipeNames) |-> AbsentRecipeDir]
        /\ deps_dirs = EmptyDepsDirs
        /\ sets = <<>>
        /\ params = DefaultParams
        /\ options = <<>>
        /\ run = 1
        /\ calls = <<>> /\ log = <<>>
        /\ started = <<>>
        /\ image_of = <<>>
        /\ previous = [dirs |-> recipe_dirs, built |-> {}]
        /\ config_path = path
        /\ opened = <<>>
        /\ patches = {}

\* fopen(path, "r") can find a file only where no file parse_file has read
\* stands for a directory of the path
fopen_can_succeed(path, files) ==
    \A f \in Range(files) :
        ~(Len(path) > Len(f) /\ SubSeq(path, 1, Len(f) + 1) = f \o <<CHAR_SLASH>>)

\* one call of parse_file: config_read's (config.c line 348) on config_path,
\* whose file main has found (main.c line 600); the call of line 318 on the
\* absolute_path of the @import line of the file last opened, whose fopen
\* finds the file or fails the assertion of line 289; or, on the file
\* without an @import line, the return to config_read
ParseFileImport ==
    /\ main_pc = "config" /\ cfg_pc = "file"
    /\ IF opened = <<>>
       THEN /\ opened' = <<config_path>>
            /\ cfg_pc' = cfg_pc
       ELSE IF Len(opened) <= Len(config_file.imports)
       THEN LET absolute_path == import_absolute_path(opened[Len(opened)],
                                                      config_file.imports[Len(opened)])
            IN /\ opened' = Append(opened, absolute_path)
               /\ \E found \in {b \in BOOLEAN : b => fopen_can_succeed(absolute_path, opened)} :
                      cfg_pc' = IF found THEN cfg_pc ELSE "abort"
       ELSE /\ opened' = opened
            /\ cfg_pc' = "parsed"
    /\ UNCHANGED <<config, argv, status, forced_recipes, main_pc, main_i, stack, recipe_dirs,
                   deps_dirs, sets, params, options, config_file, run, calls, started, log,
                   image_of, previous, config_path, patches>>

NextImport == ParseFileImport

SpecImport == InitImport /\ [][NextImport]_vars

-----------------------------------------------------------------------------
(* The stage executor with its variables: a source recipe a, built by an   *)
(* earlier run, and a host or target recipe b that depends on it, names it *)
(* as its source or not, and whose build block is any text of up to        *)
(* MaxPieces pieces, or whose three blocks name source_dir; the invocation *)
(* names b and gives some options.                                         *)

MaxPieces == 2

\* "@(prefix)"
piece_prefix == <<64, 40, 112, 114, 101, 102, 105, 120, 41>>
\* "@(x)"
piece_x == <<64, 40, 120, 41>>
\* "@(X?)"
piece_X_optional == <<64, 40, 88, 63, 41>>
\* "@(u?)"
piece_u_optional == <<64, 40, 117, 63, 41>>
\* "@(u)"
piece_u == <<64, 40, 117, 41>>
\* "@(thread_count)"
piece_thread_count == <<64, 40, 116, 104, 114, 101, 97, 100, 95, 99, 111, 117, 110, 116, 41>>
\* "@"
piece_at == <<64>>
\* "make -j"
piece_make == <<109, 97, 107, 101, 32, 45, 106>>
\* "@()"
piece_empty == <<64, 40, 41>>
\* ")"
piece_close == <<41>>

Pieces ==
    {piece_prefix, piece_x, piece_X_optional, piece_u_optional, piece_u, piece_thread_count,
     piece_at, piece_make, piece_empty, piece_close}

RECURSIVE Flatten(_)
Flatten(seqs) == IF seqs = <<>> THEN <<>> ELSE seqs[1] \o Flatten(Tail(seqs))

StageBlocks == {Flatten(ps) : ps \in SeqsUpTo(Pieces, MaxPieces)}

\* "@(source_dir)"
piece_source_dir == <<64, 40, 115, 111, 117, 114, 99, 101, 95, 100, 105, 114, 41>>
\* "@(source_dir?)"
piece_source_dir_optional == <<64, 40, 115, 111, 117, 114, 99, 101, 95, 100, 105, 114, 63, 41>>
\* "@(build_dir)"
piece_build_dir == <<64, 40, 98, 117, 105, 108, 100, 95, 100, 105, 114, 41>>
\* "@(install_dir)"
piece_install_dir == <<64, 40, 105, 110, 115, 116, 97, 108, 108, 95, 100, 105, 114, 41>>

\* the configure, build and install blocks of b: a build block alone, or
\* blocks that name source_dir or the variable declared last before it
StageTexts ==
    {<<NULL_TEXT, build, NULL_TEXT>> : build \in StageBlocks}
    \cup {<<piece_source_dir, NULL_TEXT, NULL_TEXT>>,
          <<NULL_TEXT, piece_source_dir, NULL_TEXT>>,
          <<NULL_TEXT, NULL_TEXT, piece_source_dir>>,
          <<piece_source_dir_optional, piece_source_dir_optional, piece_source_dir_optional>>,
          <<piece_build_dir, piece_thread_count, piece_install_dir>>}

\* "x=v"
optarg_x_v == <<120, 61, 118>>
\* "x=vwxyz"
optarg_x_vwxyz == <<120, 61, 118, 119, 120, 121, 122>>
\* "4"
optarg_4 == <<52>>
\* "16"
optarg_16 == <<49, 54>>
\* "x=vwxy@(prefix)"
optarg_x_nested == <<120, 61, 118, 119, 120, 121, 64, 40, 112, 114, 101, 102, 105, 120, 41>>

StageOptions ==
    {<<>>,
     <<Option(OPT_THREAD_COUNT, optarg_4), Option(OPT_VAR, optarg_x_v)>>,
     <<Option(OPT_VAR, optarg_x_vwxyz)>>,
     <<Option(OPT_THREAD_COUNT, optarg_16)>>,
     <<Option(OPT_VAR, optarg_x_nested)>>}

InitStage ==
    \E namespace \in {RECIPE_NAMESPACE_HOST, RECIPE_NAMESPACE_TARGET},
       source_name \in {"a", NULL_STR}, texts \in StageTexts :
        /\ config_file = PresentFile(<<>>)
        /\ config = <<source_recipe("a", <<>>, <<>>, "local", NULL_STR, NULL_TEXT),
                      host_target_recipe(namespace, "b",
                                         <<recipe_dependency(RECIPE_NAMESPACE_SOURCE, "a", FALSE)>>,
                                         <<>>, source_name, texts[1], texts[2], texts[3])>>
        /\ cfg_pc = "parsed"
        /\ argv = <<Argument(namespace, "b")>>
        /\ status = [r \in 1..2 |-> FreshStatus]
        /\ forced_recipes = <<>>
        /\ main_pc = "getopt" /\ main_i = 0
        /\ stack = <<>>
        /\ recipe_dirs = [key \in Namespaces \X Range(RecipeNames) |->
                            IF key = <<RECIPE_NAMESPACE_SOURCE, "a">>
                            THEN [exists |-> TRUE, written |-> 0, complete |-> TRUE, sub |-> EmptySubdirs]
                            ELSE AbsentRecipeDir]
        /\ deps_dirs = EmptyDepsDirs
        /\ sets = install_rootfs(<<>>, "ok").sets
        /\ params = DefaultParams
        /\ options \in StageOptions
        /\ run = 1
        /\ calls = <<>> /\ log = <<>>
        /\ started = [r \in 1..2 |-> 0]
        /\ image_of = [r \in 1..2 |-> NoImage]
        /\ previous = [dirs |-> recipe_dirs, built |-> {}]
        /\ config_path = config_path_default
        /\ opened = <<>>
        /\ patches = {}

SpecStage == InitStage /\ [][Next]_vars

-----------------------------------------------------------------------------
(* A source recipe on its own: a source recipe a of any type, with or      *)
(* without a patch and a strap block, and a host recipe b that has it as   *)
(* its source and a dependency; the patch file is in <cache>/patches or    *)
(* not; the invocation names b, with or without --clean-cache.             *)

SourceOptions == {<<>>, <<Option(OPT_CLEAN_CACHE, <<>>)>>}

InitSource ==
    \E type \in SourceTypes, patch \in {NULL_STR, "p"}, strap \in {NULL_TEXT, block_strap},
       files \in {{}, {"p"}} :
        /\ config_file = PresentFile(<<>>)
        /\ config = <<source_recipe("a", <<>>, <<>>, type, patch, strap),
                      host_target_recipe(RECIPE_NAMESPACE_HOST, "b",
                                         <<recipe_dependency(RECIPE_NAMESPACE_SOURCE, "a", FALSE)>>,
                                         <<>>, "a", NULL_TEXT, block_build, block_install)>>
        /\ cfg_pc = "parsed"
        /\ argv = <<Argument(RECIPE_NAMESPACE_HOST, "b")>>
        /\ status = [r \in 1..2 |-> FreshStatus]
        /\ forced_recipes = <<>>
        /\ main_pc = "getopt" /\ main_i = 0
        /\ stack = <<>>
        /\ recipe_dirs = [key \in Namespaces \X Range(RecipeNames) |-> AbsentRecipeDir]
        /\ deps_dirs = EmptyDepsDirs
        /\ sets = install_rootfs(<<>>, "ok").sets
        /\ params = DefaultParams
        /\ options \in SourceOptions
        /\ run = 1
        /\ calls = <<>> /\ log = <<>>
        /\ started = [r \in 1..2 |-> 0]
        /\ image_of = [r \in 1..2 |-> NoImage]
        /\ previous = [dirs |-> recipe_dirs, built |-> {}]
        /\ config_path = config_path_default
        /\ opened = <<>>
        /\ patches = files

SpecSource == InitSource /\ [][Next]_vars

-----------------------------------------------------------------------------
(* The options alone: up to MaxOptions --var options, read by main.        *)

MaxOptions == 2

\* "build=x"
optarg_build_x == <<98, 117, 105, 108, 100, 61, 120>>
\* "build_dir=x"
optarg_build_dir_x == <<98, 117, 105, 108, 100, 95, 100, 105, 114, 61, 120>>
\* "BUILD_DIR=x"
optarg_BUILD_DIR_x == <<66, 85, 73, 76, 68, 95, 68, 73, 82, 61, 120>>
\* "p=1"
optarg_p_1 == <<112, 61, 49>>
\* "prefixx=1"
optarg_prefixx_1 == <<112, 114, 101, 102, 105, 120, 120, 61, 49>>
\* "x="
optarg_x_empty == <<120, 61>>
\* "x"
optarg_x == <<120>>
\* "=v"
optarg_empty_v == <<61, 118>>
\* "y=x=v"
optarg_y_x_v == <<121, 61, 120, 61, 118>>

VarArguments ==
    {optarg_x_v, optarg_build_x, optarg_build_dir_x, optarg_BUILD_DIR_x, optarg_p_1,
     optarg_prefixx_1, optarg_x_empty, optarg_x, optarg_empty_v, optarg_y_x_v}

InitOptions ==
    /\ config_file = PresentFile(<<>>)
    /\ config = <<>>
    /\ cfg_pc = "parsed"
    /\ argv = <<>>
    /\ status = <<>>
    /\ forced_recipes = <<>>
    /\ main_pc = "getopt" /\ main_i = 0
    /\ stack = <<>>
    /\ recipe_dirs = [key \in Namespaces \X Range(RecipeNames) |-> AbsentRecipeDir]
    /\ deps_dirs = EmptyDepsDirs
    /\ sets = <<>>
    /\ params = DefaultParams
    /\ options \in SeqsUpTo({Option(OPT_VAR, optarg) : optarg \in VarArguments}, MaxOptions)
    /\ run = 1
    /\ calls = <<>> /\ log = <<>>
    /\ started = <<>>
    /\ image_of = <<>>
    /\ previous = [dirs |-> recipe_dirs, built |-> {}]
    /\ config_path = config_path_default
    /\ opened = <<>>
    /\ patches = {}

NextOptions == MainGetopt

SpecOptions == InitOptions /\ [][NextOptions]_vars

-----------------------------------------------------------------------------
(* The staging of dependencies alone: the recipes host/a, source/b and     *)
(* target/c, all built, each depending on any of the other two, by a       *)
(* runtime dependency or not, cycles included, the dependencies written in *)
(* either order; setup_recipe_state is called once, on any of them.  With  *)
(* three recipes no walk reads the array of image dependencies after a     *)
(* deeper call has moved it.                                               *)

DepsEdges == {<<i, j>> \in (1..3) \X (1..3) : i # j}

\* the image packages of the three recipes
DepsImageDepsOf(i) ==
    IF i = 1 THEN <<image_dependency(pkg_a, TRUE), image_dependency(pkg_b, FALSE)>>
    ELSE IF i = 2 THEN <<image_dependency(pkg_b, TRUE), image_dependency(pkg_ab, FALSE)>>
    ELSE <<image_dependency(pkg_ab, TRUE), image_dependency(pkg_a, FALSE)>>

\* the dependencies of recipe i, written in ascending or descending order
DepsOf(order, edge, i, ascending) ==
    LET others == SelectSeq(IF ascending THEN <<1, 2, 3>> ELSE <<3, 2, 1>>,
                            LAMBDA j : j # i /\ edge[<<i, j>>] # "none")
    IN [k \in DOMAIN others |->
           recipe_dependency(order[others[k]], RecipeNames[others[k]],
                             edge[<<i, others[k]>>] = "runtime")]

DepsRecipe(order, edge, i, ascending) ==
    IF order[i] = RECIPE_NAMESPACE_SOURCE
    THEN source_recipe(RecipeNames[i], DepsOf(order, edge, i, ascending), DepsImageDepsOf(i),
                       "local", NULL_STR, NULL_TEXT)
    ELSE host_target_recipe(order[i], RecipeNames[i], DepsOf(order, edge, i, ascending),
                            DepsImageDepsOf(i), NULL_STR, NULL_TEXT, NULL_TEXT, NULL_TEXT)

InitDeps ==
    \E order \in NamespaceOrders, edge \in [DepsEdges -> EdgeKinds], ascending \in BOOLEAN :
        /\ config = config_read([i \in 1..3 |-> DepsRecipe(order, edge, i, ascending)])
        /\ cfg_pc = "returned"
        /\ argv = <<>>
        /\ status = [r \in 1..3 |-> FreshStatus]
        /\ forced_recipes = <<>>
        /\ main_pc = "loop" /\ main_i = 1
        /\ stack = <<>>
        /\ recipe_dirs = [key \in Namespaces \X Range(RecipeNames) |->
                            [exists |-> TRUE, written |-> 0, complete |-> TRUE, sub |-> EmptySubdirs]]
        /\ deps_dirs = EmptyDepsDirs
        /\ sets = install_rootfs(<<>>, "ok").sets
        /\ params = DefaultParams
        /\ options = <<>>
        /\ config_file = PresentFile(<<>>)
        /\ run = 1
        /\ calls = <<>> /\ log = <<>>
        /\ started = [r \in 1..3 |-> 0]
        /\ image_of = [r \in 1..3 |-> NoImage]
        /\ previous = [dirs |-> recipe_dirs, built |-> {}]
        /\ config_path = config_path_default
        /\ opened = <<>>
        /\ patches = {}

\* setup_recipe_state for recipe r (line 274), the scratch directories being
\* empty; the copy of the output of any recipe may fail
DepsSetup ==
    /\ \A q \in DOMAIN image_of : ~image_of[q].valid
    /\ \E r \in DOMAIN config : \E env \in SetupEnvironments(DOMAIN config, 0) :
        LET res == setup_recipe_state(config, recipe_dirs, deps_dirs, sets, r, env) IN
        /\ env.kind = "link"
        /\ deps_dirs' = res.deps_dirs
        /\ sets' = res.sets
        /\ image_of' = [image_of EXCEPT ![r] =
                           [status |-> res.status, path |-> res.path,
                            gathered |-> res.image_deps,
                            installed |-> res.installed, made |-> res.made,
                            valid |-> TRUE]]
        /\ UNCHANGED <<config, cfg_pc, argv, status, forced_recipes, main_pc, main_i, stack,
                       recipe_dirs, params, options, config_file, run, calls, started, log, previous,
                   config_path, opened, patches>>

NextDeps == DepsSetup

SpecDeps == InitDeps /\ [][NextDeps]_vars

-----------------------------------------------------------------------------
(* Vocabulary of the properties *)

RecipesOf(cfg) == 1..Len(cfg)

\* the recipes process_recipe calls itself on for recipe r
Children(cfg, r) ==
    {cfg[r].dependencies[j].resolved : j \in 1..Len(cfg[r].dependencies)}
    \cup (IF IsHostTarget(cfg[r]) /\ cfg[r].host_target.source.resolved # NULL
          THEN {cfg[r].host_target.source.resolved} ELSE {})

\* the source reference and dependency closure of r
RECURSIVE ClosureWithin(_, _, _)
ClosureWithin(cfg, rs, n) ==
    IF n = 0 THEN rs
    ELSE ClosureWithin(cfg, rs \cup UNION {Children(cfg, d) : d \in rs}, n - 1)

Closure(cfg, r) == ClosureWithin(cfg, Children(cfg, r), Len(cfg))

\* recipe r is named by a positional argument
Named(r) ==
    \E k \in DOMAIN argv :
        argv[k].namespace = config[r].namespace /\ argv[k].identifier = config[r].name

CallsOn(r) == {k \in DOMAIN calls : calls[k].recipe = r}

RanStages(call) == call.cause \in {"built", "terminate"}

TopCalls == SelectSeq(calls, LAMBDA c : c.depth = 1)

Wgets(r) == {k \in DOMAIN log : log[k].recipe = r /\ log[k].cmd = "wget"}

IsTarSource(recipe) ==
    /\ recipe.namespace = RECIPE_NAMESPACE_SOURCE
    /\ recipe.source.type \in {"tar.gz", "tar.xz"}

\* a precedes b in ascending byte order (a proper prefix first)
Precedes(a, b) ==
    \E i \in 1..(Len(a) + 1) :
        /\ \A j \in 1..(i - 1) : j <= Len(b) /\ a[j] = b[j]
        /\ \/ i = Len(a) + 1 /\ Len(b) >= i
           \/ i <= Len(a) /\ i <= Len(b) /\ a[i] < b[i]

PackageSet(recipe) ==
    {recipe.image_dependencies[i].name : i \in 1..Len(recipe.image_dependencies)}

Composed(r) == image_of[r].valid /\ LIB_OK(image_of[r].status)

-----------------------------------------------------------------------------
(* Properties *)

\* C1: within one run the stage executor of a recipe is entered at most
\* once, however many times process_recipe is called on the recipe.
C1_StagesAtMostOnce == \A r \in DOMAIN started : started[r] <= 1

\* a recipe on which process_recipe returned at least twice in this run and
\* whose stage commands ran
C1_Witness ==
    \E r \in DOMAIN started : started[r] = 1 /\ Cardinality(CallsOn(r)) >= 2

\* C2 (as claimed): a process_recipe call made after a recipe of the
\* caller's source/dependency closure was marked failed returns failure and
\* runs none of the caller's stage commands.
C2_FailurePropagates ==
    \A k \in DOMAIN calls :
        (calls[k].failed_before \cap Closure(config, calls[k].recipe) # {})
            => (calls[k].status = LIB_STATUS_FAIL /\ ~RanStages(calls[k]))

\* C3 (as claimed): a process_recipe call that fails in the recipe's own
\* processing returns with the recipe marked failed and its cache directory
\* absent.
C3_OwnFailureMarked ==
    \A k \in DOMAIN calls :
        (calls[k].status = LIB_STATUS_FAIL /\ calls[k].cause # "child")
            => (calls[k].failed /\ ~calls[k].dir_exists)

\* C4: a recipe that no argument names is never invalidated, and if its
\* cache directory existed when the run began, the run executes none of its
\* stage commands, leaves the directory as it was, and leaves built and
\* failed false.
C4_IncrementalSkip ==
    \A r \in DOMAIN status :
        (cfg_pc = "returned" /\ ~Named(r)) =>
            /\ ~status[r].invalidated
            /\ previous.dirs[recipe_dir(config[r])].exists =>
                  /\ started[r] = 0
                  /\ recipe_dirs[recipe_dir(config[r])] = previous.dirs[recipe_dir(config[r])]
                  /\ ~status[r].built /\ ~status[r].failed

\* an unnamed recipe with a cache directory was visited and skipped in a
\* run that rebuilt one of its dependencies
C4_Witness ==
    \E r \in DOMAIN status :
        /\ cfg_pc = "returned" /\ ~Named(r)
        /\ previous.dirs[recipe_dir(config[r])].exists
        /\ \E k \in CallsOn(r) : calls[k].cause = "skip"
        /\ \E d \in Children(config, r) : started[d] = 1

\* C5 (as claimed): when the run has ended, every forced recipe whose
\* source and dependencies all succeeded has executed its stage commands.
C5_ForcedAlwaysRebuilt ==
    main_pc = "done" =>
        \A r \in Range(forced_recipes) :
            (\A d \in Closure(config, r) :
                ~status[d].failed /\ \A k \in CallsOn(d) : LIB_OK(calls[k].status))
            => started[r] >= 1

\* C5 (amended): every recipe an argument names is invalidated before any
\* recipe is processed, and a process_recipe call on it is never an
\* incremental skip: the call returns because a child call failed, because
\* cleaning the scratch directories, staging or image composition failed,
\* or the recipe's stage commands have been executed in this run.
C5_ForcedNeverSkipped ==
    /\ (stack # <<>> \/ calls # <<>>) =>
          \A r \in DOMAIN status : Named(r) => status[r].invalidated
    /\ \A k \in DOMAIN calls :
          Named(calls[k].recipe) =>
              \/ calls[k].cause \in {"child", "clean", "setup"}
              \/ started[calls[k].recipe] >= 1

\* a forced recipe whose cache directory existed was rebuilt when reached
\* as a dependency of an earlier forced recipe
C5_Witness ==
    \E r \in DOMAIN status :
        /\ cfg_pc = "returned" /\ Named(r)
        /\ previous.dirs[recipe_dir(config[r])].exists
        /\ \E k \in CallsOn(r) : calls[k].depth > 1 /\ RanStages(calls[k])

\* C6 (as claimed): in a re-run of the invocation, a tar source recipe
\* without dependencies that the previous run built is not downloaded
\* again and its directory is left as it was.
C6_RerunIsNoOp ==
    \A r \in DOMAIN status :
        (/\ cfg_pc = "returned" /\ run >= 2 /\ r \in previous.built
         /\ IsTarSource(config[r]) /\ config[r].dependencies = <<>>)
        => /\ Wgets(r) = {}
           /\ recipe_dirs[recipe_dir(config[r])] = previous.dirs[recipe_dir(config[r])]

\* C6 (amended): the same, for a recipe that the invocation does not name
\* (it was built as the source or a dependency of a forced recipe).
C6_RerunSkipsUnnamed ==
    \A r \in DOMAIN status :
        (/\ cfg_pc = "returned" /\ run >= 2 /\ r \in previous.built
         /\ IsTarSource(config[r]) /\ config[r].dependencies = <<>>
         /\ ~Named(r))
        => /\ Wgets(r) = {}
           /\ recipe_dirs[recipe_dir(config[r])] = previous.dirs[recipe_dir(config[r])]

\* the re-run has visited an unnamed tar source that the previous run built
C6_Witness ==
    \E r \in DOMAIN status :
        /\ cfg_pc = "returned" /\ run >= 2 /\ r \in previous.built
        /\ IsTarSource(config[r]) /\ config[r].dependencies = <<>>
        /\ ~Named(r)
        /\ CallsOn(r) # {}

\* C7: process_recipe is called at top level on the forced recipes in
\* command-line order, and when main returns it has been called on every
\* one of them, whatever the calls returned.
C7_SiblingsAllProcessed ==
    /\ Len(TopCalls) <= Len(forced_recipes)
    /\ \A k \in DOMAIN TopCalls : TopCalls[k].recipe = forced_recipes[k]
    /\ main_pc \in {"loop", "done"} => forced_recipes = forced_from(config, argv, 1)
    /\ main_pc = "done" => Len(TopCalls) = Len(forced_recipes)

\* main has returned after the first of two forced recipes failed
C7_Witness ==
    /\ main_pc = "done"
    /\ Len(forced_recipes) = 2 /\ Len(TopCalls) = 2
    /\ TopCalls[1].status = LIB_STATUS_FAIL
    /\ forced_recipes[1] # forced_recipes[2]

\* C8: the image path setup_recipe_state returns holds exactly the
\* distinct package names of the recipe, in ascending byte order, one per
\* component; two recipes with equal package sets get the same path.
C8_ImagePathCanonical ==
    /\ \A r \in DOMAIN image_of :
          Composed(r) =>
              LET path == image_of[r].path IN
              /\ Range(path) = PackageSet(config[r])
              /\ \A i, j \in DOMAIN path : i < j => Precedes(path[i], path[j])
    /\ \A r1, r2 \in DOMAIN image_of :
          (Composed(r1) /\ Composed(r2) /\ PackageSet(config[r1]) = PackageSet(config[r2]))
              => image_of[r1].path = image_of[r2].path

\* two recipes that list the same packages differently, one of them with a
\* repetition, were composed
C8_Witness ==
    /\ Composed(1) /\ Composed(2)
    /\ config[1].image_dependencies # config[2].image_dependencies
    /\ PackageSet(config[1]) = PackageSet(config[2])
    /\ Len(image_of[1].path) >= 2
    /\ Len(config[1].image_dependencies) > Len(image_of[1].path)

\* C9 (as claimed): with a base image in place, the directory
\* setup_recipe_state returns has a rootfs child holding the base image
\* with exactly the packages of the path installed, and so has every layer
\* directory of the cache.
C9_LayersHoldTheirPackages ==
    <<rootfs>> \in DOMAIN sets =>
        /\ \A r \in DOMAIN image_of :
              Composed(r) =>
                  LET root == Append(image_of[r].path, rootfs) IN
                  /\ root \in DOMAIN sets
                  /\ sets[root] = RootfsDir(sets[<<rootfs>>].base, Range(image_of[r].path))
        /\ \A p \in DOMAIN sets :
              (sets[p].kind = "dir" /\ p # <<>>) =>
                  /\ Append(p, rootfs) \in DOMAIN sets
                  /\ sets[Append(p, rootfs)] = RootfsDir(sets[<<rootfs>>].base, Range(p))

\* C10: when config_read has returned, every dependency is bound to a
\* recipe of the array with the namespace and name the entry gives, and
\* every source field of a host/target recipe to a source recipe of that
\* name.
C10_ReferencesResolved ==
    cfg_pc = "returned" =>
        \A i \in RecipesOf(config) :
            /\ \A j \in 1..Len(config[i].dependencies) :
                  LET dep == config[i].dependencies[j] IN
                  /\ dep.resolved # NULL
                  /\ dep.resolved \in RecipesOf(config)
                  /\ config[dep.resolved].namespace = dep.namespace
                  /\ config[dep.resolved].name = dep.name
            /\ (IsHostTarget(config[i]) /\ config[i].host_target.source.name # NULL_STR) =>
                  LET src == config[i].host_target.source IN
                  /\ src.resolved # NULL
                  /\ src.resolved \in RecipesOf(config)
                  /\ config[src.resolved].namespace = RECIPE_NAMESPACE_SOURCE
                  /\ config[src.resolved].name = src.name

\* config_read returned an array in which a dependency and a source field
\* name recipes declared later
C10_Witness ==
    /\ cfg_pc = "returned"
    /\ \E i \in RecipesOf(config) :
          /\ \E j \in 1..Len(config[i].dependencies) : config[i].dependencies[j].resolved > i
          /\ IsHostTarget(config[i])
          /\ config[i].host_target.source.resolved > i

\* C11 (as claimed): in the recipe array config_read returns, no two
\* recipes share the same (namespace, name) pair.
C11_NamesUnique ==
    cfg_pc = "returned" =>
        \A i, j \in RecipesOf(config) :
            (config[i].namespace = config[j].namespace /\ config[i].name = config[j].name)
                => i = j

\* the fields of the one recipe the file declares
DeclaredFields == config_file.declarations[1].fields

Declares(fields, key) == \E k \in DOMAIN fields : fields[k].key = key

\* the type the recipe declares (the one written last, if it is written
\* more than once)
DeclaredType(fields) ==
    LET ks == {k \in DOMAIN fields : fields[k].key = "type"} IN
    fields[CHOOSE k \in ks : \A m \in ks : m <= k].value

\* every field is one the grammar of a source recipe has
KnownFields(fields) ==
    \A k \in DOMAIN fields :
        /\ fields[k].key \in {"url", "type", "b2sum", "commit", "patch", "dependencies", "strap"}
        /\ fields[k].key = "type" => fields[k].value \in SourceTypes

\* C12: config_read accepts the source recipe if and only if its fields are
\* known and it declares url and type, b2sum exactly when the type is
\* tar.gz or tar.xz, and commit exactly when the type is git, in whatever
\* order the fields are written; otherwise the process exits while parsing,
\* no recipe having been processed.
C12_SourceFieldsValidated ==
    cfg_pc # "file" =>
        LET fields == DeclaredFields
            valid == /\ KnownFields(fields)
                     /\ Declares(fields, "url") /\ Declares(fields, "type")
                     /\ Declares(fields, "b2sum") <=> DeclaredType(fields) \in {"tar.gz", "tar.xz"}
                     /\ Declares(fields, "commit") <=> DeclaredType(fields) = "git"
        IN /\ valid => cfg_pc \in {"parsed", "returned"} /\ Len(config) = 1
           /\ ~valid => cfg_pc = "exit" /\ main_pc = "exit" /\ config = <<>>
           /\ calls = <<>> /\ stack = <<>> /\ log = <<>>

\* config_read returned a git recipe that writes commit before type, which
\* it writes before url
C12_Witness ==
    /\ cfg_pc = "returned"
    /\ \E i, j, k \in DOMAIN DeclaredFields :
          /\ i < j /\ j < k
          /\ DeclaredFields[i].key = "commit"
          /\ DeclaredFields[j] = Field("type", "git")
          /\ DeclaredFields[k].key = "url"

\* the letter c without its case
Fold(c) == IF c \in 65..90 THEN c + 32 ELSE c

\* the names a and b are the same, case aside
SameName(a, b) == Len(a) = Len(b) /\ \A k \in DOMAIN a : Fold(a[k]) = Fold(b[k])

Known(name, scope) == \E k \in DOMAIN scope : SameName(scope[k].name, name)

ValueOf(name, scope) ==
    scope[CHOOSE k \in DOMAIN scope :
            /\ SameName(scope[k].name, name)
            /\ \A m \in DOMAIN scope : SameName(scope[m].name, name) => k <= m].value

\* the position of the first ')' of s, 0 when it has none
FirstClose(s) ==
    LET ks == {k \in DOMAIN s : s[k] = CHAR_CLOSE} IN
    IF ks = {} THEN 0 ELSE CHOOSE k \in ks : \A m \in ks : k <= m

\* s begins with a placeholder: "@(", then its body up to the first ')'
BeginsPlaceholder(s) ==
    Len(s) >= 2 /\ s[1] = CHAR_AT /\ s[2] = CHAR_OPEN /\ FirstClose(s) # 0

PlaceholderBody(s) == SubSeq(s, 3, FirstClose(s) - 1)

AfterPlaceholder(s) == SubSeq(s, FirstClose(s) + 1, Len(s))

IsOptional(body) == body # <<>> /\ body[Len(body)] = CHAR_QUESTION

NameOf(body) == IF IsOptional(body) THEN SubSeq(body, 1, Len(body) - 1) ELSE body

\* the placeholders of s, read from left to right, as their bodies
RECURSIVE Placeholders(_)
Placeholders(s) ==
    IF s = <<>> THEN <<>>
    ELSE IF BeginsPlaceholder(s)
    THEN <<PlaceholderBody(s)>> \o Placeholders(AfterPlaceholder(s))
    ELSE Placeholders(Tail(s))

\* the text before a result of the expansion, which may be no result
Before(text, result) == IF result = NULL_TEXT THEN NULL_TEXT ELSE text \o result

\* the expansion of s in scope: every placeholder of a name of the scope
\* gives way to its value, an optional one of an unknown name to nothing,
\* "@()" and every other character stay, and a required placeholder of an
\* unknown name leaves no result
RECURSIVE Expand(_, _)
Expand(s, scope) ==
    IF s = <<>> THEN <<>>
    ELSE IF BeginsPlaceholder(s)
    THEN LET body == PlaceholderBody(s)
             rest == Expand(AfterPlaceholder(s), scope)
         IN IF body = <<>> THEN Before(SubSeq(s, 1, 3), rest)
            ELSE IF Known(NameOf(body), scope) THEN Before(ValueOf(NameOf(body), scope), rest)
            ELSE IF IsOptional(body) THEN rest
            ELSE NULL_TEXT
    ELSE Before(<<s[1]>>, Expand(Tail(s), scope))

\* the host or target recipe the invocation names (the one declared last),
\* its build block, and the variables its build stage has once the options
\* are read: the built-in ones, then the user's
Built == Len(config)

BuildBlock == config[Built].host_target.build

BuildScope ==
    stage_variables("build", stage_prefix(config[Built].namespace),
                    config[Built].host_target.source.name # NULL_STR)
    \o params.user_embed

\* the build commands the container ran for the recipe
BuildCommands == {k \in DOMAIN log : log[k].recipe = Built /\ log[k].cmd = "build"}

AllKnown(s, scope) ==
    \A k \in DOMAIN Placeholders(s) :
        LET body == Placeholders(s)[k] IN body # <<>> /\ Known(NameOf(body), scope)

\* C13 (as claimed): a build block without "@()" whose placeholders all
\* name a variable of the built-in or the user scope is run with every
\* placeholder replaced by the value of its variable, names compared without
\* case, and every other character kept, in order.
C13_ExpansionExact ==
    (main_pc # "getopt" /\ AllKnown(BuildBlock, BuildScope)) =>
        \A k \in BuildCommands : log[k].text = Expand(BuildBlock, BuildScope)

\* some placeholder of s is optional and of an unknown name, and every
\* required one is of a known name
OptionalUnknown(s, scope) ==
    /\ \A k \in DOMAIN Placeholders(s) :
          LET body == Placeholders(s)[k] IN
          body # <<>> /\ (IsOptional(body) \/ Known(NameOf(body), scope))
    /\ \E k \in DOMAIN Placeholders(s) : ~Known(NameOf(Placeholders(s)[k]), scope)

RequiredUnknown(s, scope) ==
    \E k \in DOMAIN Placeholders(s) :
        LET body == Placeholders(s)[k] IN
        body # <<>> /\ ~IsOptional(body) /\ ~Known(NameOf(body), scope)

\* C14 (as claimed): an optional placeholder of a name of neither scope is
\* removed from the build command, nothing else changed; a required
\* placeholder of a name of neither scope stops the recipe before the build
\* command is run: the recipe ends failed and its directory is deleted.
C14_UnknownPlaceholders ==
    main_pc # "getopt" =>
        /\ OptionalUnknown(BuildBlock, BuildScope) =>
              \A k \in BuildCommands : log[k].text = Expand(BuildBlock, BuildScope)
        /\ RequiredUnknown(BuildBlock, BuildScope) =>
              /\ BuildCommands = {}
              /\ started[Built] >= 1 =>
                    /\ status[Built].failed
                    /\ ~recipe_dirs[recipe_dir(config[Built])].exists

\* the arguments of the --thread-count options given
ThreadCounts == {k \in DOMAIN options : options[k].val = OPT_THREAD_COUNT}

\* C15 (as claimed): with --thread-count N given, N positive, the build
\* block "make -j@(thread_count)" is run as "make -j" followed by the
\* decimal text of N.
C15_ThreadCountGiven ==
    \A n \in ThreadCounts :
        (\A m \in ThreadCounts : m <= n) =>
            (BuildBlock = piece_make \o piece_thread_count =>
                \A k \in BuildCommands : log[k].text = piece_make \o options[n].optarg)

\* the position of the first '=' of a --var argument, 0 when it has none
FirstEquals(optarg) ==
    LET ks == {k \in DOMAIN optarg : optarg[k] = CHAR_EQUALS} IN
    IF ks = {} THEN 0 ELSE CHOOSE k \in ks : \A m \in ks : k <= m

KeyOf(optarg) == SubSeq(optarg, 1, FirstEquals(optarg) - 1)

ValueOfArgument(optarg) == SubSeq(optarg, FirstEquals(optarg) + 1, Len(optarg))

\* name is one of the eight reserved names, case aside
IsReserved(name) == \E k \in DOMAIN ReservedNames : SameName(ReservedNames[k], name)

\* the --var options that are to add a variable, in the order given
Accepted ==
    SelectSeq(options,
              LAMBDA o : /\ o.val = OPT_VAR
                         /\ FirstEquals(o.optarg) > 1
                         /\ ValueOfArgument(o.optarg) # <<>>
                         /\ ~IsReserved(KeyOf(o.optarg)))

\* C16 (as claimed): once the options are read, the user variables are
\* those of the --var key=value options, key not empty, whose value is not
\* empty and whose key is none of the eight reserved names, case aside, and
\* no other; so no user variable has a reserved name.
C16_VarAddedUnlessReserved ==
    main_pc = "config" =>
        /\ params.user_embed =
              [k \in DOMAIN Accepted |-> [name |-> KeyOf(Accepted[k].optarg),
                                          value |-> ValueOfArgument(Accepted[k].optarg)]]
        /\ \A k \in DOMAIN params.user_embed : ~IsReserved(params.user_embed[k].name)

\* sets/rootfs is an installed base image
Installed(fs) == sets_path_exists(fs, <<rootfs>>) = 0 /\ fs[<<rootfs>>].base = "installed"

\* no recipe has been processed in this run
NothingProcessed == calls = <<>> /\ stack = <<>> /\ log = <<>>

\* C17 (as claimed): the run exits with status 1 when the configuration file
\* is missing and when the installation of the base image fails, no recipe
\* having been processed in either case, and with status 0 when it comes to
\* its end with nothing to do.
C17_ExitStatus ==
    /\ (~config_file.exists /\ main_pc \notin {"getopt", "config"}) =>
          main_pc = "exit" /\ exit_status = EXIT_FAILURE /\ NothingProcessed
    /\ (run = 1 /\ main_pc \in {"force", "loop", "done", "exit"} /\ cfg_pc = "returned"
        /\ ~Installed(sets)) =>
          main_pc = "exit" /\ exit_status = EXIT_FAILURE /\ NothingProcessed
    /\ (main_pc = "done" /\ forced_recipes = <<>>) =>
          exit_status = EXIT_SUCCESS /\ NothingProcessed

\* C18 (as claimed): a run that finds at sets/rootfs what a failed
\* installation left does not go on to the recipes with it: it goes on only
\* with an installed base image.
C18_PartialRootfsReinstalled ==
    [][(main_pc = "rootfs" /\ sets_path_exists(sets, <<rootfs>>) = 0 /\ ~Installed(sets)
        /\ main_pc' = "force") => Installed(sets')]_vars

\* the recipes that recipe r depends on, and those it depends on at runtime
DirectDependencies(r) ==
    {config[r].dependencies[j].resolved : j \in DOMAIN config[r].dependencies}

RuntimeDependencies(r) ==
    {config[r].dependencies[j].resolved :
        j \in {k \in DOMAIN config[r].dependencies : config[r].dependencies[k].runtime}}

\* S and every recipe reachable from it by runtime dependencies
RECURSIVE RuntimeClosure(_)
RuntimeClosure(S) ==
    LET more == S \cup UNION {RuntimeDependencies(q) : q \in S} IN
    IF more = S THEN S ELSE RuntimeClosure(more)

\* the recipes whose output is in the scratch directories
InScratch == UNION {deps_dirs[namespace] : namespace \in DOMAIN deps_dirs}

\* C19 (as claimed): when the scratch directories and the image of recipe r
\* have been set up, the recipes whose output was copied into the scratch
\* directories are the dependencies of r, runtime or not, and the recipes
\* reachable from them by runtime dependencies, each copied once, whatever
\* the graph and the order the dependencies are written in.
C19_StagedExactly ==
    \A r \in DOMAIN image_of :
        Composed(r) =>
            /\ Range(image_of[r].installed) = RuntimeClosure(DirectDependencies(r))
            /\ InScratch = RuntimeClosure(DirectDependencies(r))
            /\ \A i, j \in DOMAIN image_of[r].installed :
                  image_of[r].installed[i] = image_of[r].installed[j] => i = j

\* the names of the image dependencies of recipe r, and of those marked
\* runtime
ImageNames(r) ==
    {config[r].image_dependencies[j].name : j \in DOMAIN config[r].image_dependencies}

RuntimeImageNames(r) ==
    {config[r].image_dependencies[j].name :
        j \in {k \in DOMAIN config[r].image_dependencies : config[r].image_dependencies[k].runtime}}

\* C20 (as claimed): the image packages gathered for recipe r are the image
\* dependencies of r and the image dependencies marked runtime of the
\* recipes staged for r, each name once, and no other.
C20_ImageListExactly ==
    \A r \in DOMAIN image_of :
        Composed(r) =>
            /\ Range(image_of[r].gathered) =
                  ImageNames(r) \cup UNION {RuntimeImageNames(q) : q \in Range(image_of[r].installed)}
            /\ \A i, j \in DOMAIN image_of[r].gathered :
                  image_of[r].gathered[i] = image_of[r].gathered[j] => i = j

\* the container commands run for recipe r in this run
CommandsOf(r) == {k \in DOMAIN log : log[k].recipe = r}

\* C21 (as claimed): when the output of a recipe of the staging set of r,
\* a dependency of r or a recipe reached from one by runtime dependencies,
\* was not copied, setup_recipe_state has failed for r and no stage command
\* of r is executed.
C21_CopyFailureFailsRecipe ==
    \A r \in DOMAIN image_of :
        (/\ image_of[r].valid
         /\ RuntimeClosure(DirectDependencies(r)) \ Range(image_of[r].installed) # {})
        => /\ ~LIB_OK(image_of[r].status)
           /\ CommandsOf(r) = {}

\* recipe r has a source recipe
HasSource(r) == IsHostTarget(config[r]) /\ config[r].host_target.source.resolved # NULL

SourceOf(r) == config[r].host_target.source.resolved

\* C22: in a run, the stage commands of a recipe that is the source or a
\* dependency of recipe r have all finished before the first stage command
\* of r starts, and a call of process_recipe on r has processed the source
\* of r before it goes to the dependencies of r.
C22_ChildrenBeforeParent ==
    cfg_pc = "returned" =>
        /\ \A r \in DOMAIN config : \A d \in Children(config, r) \ {r} :
              \A i \in CommandsOf(d), j \in CommandsOf(r) : i < j
        /\ \A p \in DOMAIN stack :
              LET r == stack[p].recipe IN
              HasSource(r) =>
                 /\ stack[p].pc = "source_wait" =>
                       /\ p < Len(stack)
                       /\ stack[p + 1].recipe = SourceOf(r)
                 /\ stack[p].pc \notin {"source", "source_wait"} => CallsOn(SourceOf(r)) # {}

\* a recipe, its source and a dependency of it that is not its source have
\* all run stage commands in this run
C22_Witness ==
    /\ cfg_pc = "returned"
    /\ \E r \in DOMAIN config :
          /\ HasSource(r) /\ CommandsOf(r) # {} /\ CommandsOf(SourceOf(r)) # {}
          /\ \E d \in Children(config, r) \ {r, SourceOf(r)} : CommandsOf(d) # {}

\* the recipes of namespace staged for recipe r by its last setup
StagedIn(r, namespace) ==
    {d \in Range(image_of[r].installed) : config[d].namespace = namespace}

\* C23: when the stage executor of recipe r is about to start, each of
\* deps/source, deps/host and deps/target holds the outputs staged for r in
\* this visit and nothing else: nothing staged for a recipe processed
\* earlier is left.
C23_ScratchHoldsOnlyOwn ==
    (stack # <<>> /\ Top.pc = "stage") =>
        \A namespace \in DOMAIN deps_dirs :
            deps_dirs[namespace] = StagedIn(Top.recipe, namespace)

\* the stage executor of r is about to start, and a recipe processed
\* earlier in the run had an output staged that is not staged for r
C23_Witness ==
    /\ stack # <<>> /\ Top.pc = "stage"
    /\ \E d \in DOMAIN image_of :
          /\ d # Top.recipe /\ image_of[d].valid
          /\ Range(image_of[d].installed) \ Range(image_of[Top.recipe].installed) # {}

\* the layer directory of the first i packages of the sorted list
Layer(image_deps, i) == SubSeq(image_deps, 1, i)

\* setup_recipe_state has failed for recipe r in this run
SetupFailed(r) == image_of[r].valid /\ ~LIB_OK(image_of[r].status)

\* C24: a step in which setup_recipe_state fails for a recipe, its
\* dependencies staged, leaves the cache with the layers before the one
\* that failed, without the one that failed and with every directory it had
\* before; no stage command of the recipe runs; and a composition that
\* succeeds, later or not, has every layer of its path in the cache.
C24_FailedLayerDeleted ==
    [][\A r \in DOMAIN image_of :
          /\ (image_of'[r] # image_of[r] /\ ~LIB_OK(image_of'[r].status)
              /\ image_of'[r].gathered # <<>>) =>
                LET image_deps == image_of'[r].gathered IN
                /\ \E i \in DOMAIN image_deps :
                      /\ Layer(image_deps, i) \notin DOMAIN sets'
                      /\ \A k \in 1..(i - 1) : Layer(image_deps, k) \in DOMAIN sets'
                /\ \A p \in DOMAIN sets : p \in DOMAIN sets' /\ sets'[p] = sets[p]
          /\ SetupFailed(r)' => (CommandsOf(r) = {})' /\ started'[r] = 0
          /\ Composed(r)' =>
                \A k \in DOMAIN image_of'[r].path : Layer(image_of'[r].path, k) \in DOMAIN sets'
      ]_vars

\* setup_recipe_state has failed for a recipe at its second layer, the
\* first being in the cache
C24_Witness ==
    \E r \in DOMAIN image_of :
        /\ SetupFailed(r)
        /\ Len(image_of[r].gathered) >= 2
        /\ Layer(image_of[r].gathered, 1) \in DOMAIN sets
        /\ Layer(image_of[r].gathered, 2) \notin DOMAIN sets

\* C25: in a step that composes an image, no layer that was in the cache is
\* linked or has its package installed again, and every directory of the
\* cache stays as it was; so a layer is made once, whatever recipes and
\* runs go through it.
C25_LayersMadeOnce ==
    [][/\ \A r \in DOMAIN image_of :
             image_of'[r] # image_of[r] => image_of'[r].made \cap DOMAIN sets = {}
       /\ \A p \in DOMAIN sets : p \in DOMAIN sets' /\ sets'[p] = sets[p]
      ]_vars

\* two recipes were composed, the second through a layer that the first
\* had made, adding a layer of its own
C25_Witness ==
    \E r1, r2 \in DOMAIN image_of :
        /\ Composed(r1) /\ Composed(r2)
        /\ Len(image_of[r2].path) >= 2
        /\ Layer(image_of[r2].path, 1) \in image_of[r1].made
        /\ image_of[r2].made = {image_of[r2].path}

\* C26 (as claimed): two recipes whose image package sets have a package in
\* common are composed through a common layer directory below sets/.
C26_OverlapSharesLayer ==
    \A r1, r2 \in DOMAIN image_of :
        (/\ Composed(r1) /\ Composed(r2)
         /\ PackageSet(config[r1]) \cap PackageSet(config[r2]) # {})
        => /\ image_of[r1].path # <<>> /\ image_of[r2].path # <<>>
           /\ Layer(image_of[r1].path, 1) = Layer(image_of[r2].path, 1)

\* the k packages of S that come first in byte order
Smallest(S, k) == {x \in S : Cardinality({y \in S : Precedes(y, x)}) < k}

\* C26 (amended): two recipes are composed through the same first k layer
\* directories exactly when the k packages that come first in byte order
\* are the same in their two package sets; a package in common that is not
\* among them gives no common layer.
C26_SmallestPackagesShareLayers ==
    \A r1, r2 \in DOMAIN image_of :
        (Composed(r1) /\ Composed(r2)) =>
            \A k \in 1..Len(image_of[r1].path) :
                (/\ k <= Len(image_of[r2].path)
                 /\ Layer(image_of[r1].path, k) = Layer(image_of[r2].path, k))
                <=> (/\ Cardinality(PackageSet(config[r2])) >= k
                     /\ Smallest(PackageSet(config[r1]), k) = Smallest(PackageSet(config[r2]), k))

\* two recipes with different package sets were composed through the same
\* first layer and then through different ones
C26_Witness ==
    /\ Composed(1) /\ Composed(2)
    /\ Len(image_of[1].path) >= 2 /\ Len(image_of[2].path) >= 2
    /\ Layer(image_of[1].path, 1) = Layer(image_of[2].path, 1)
    /\ Layer(image_of[1].path, 2) # Layer(image_of[2].path, 2)

-----------------------------------------------------------------------------
(* C27: what is inserted is not read again *)

\* the build block is one placeholder of a name of the scope, then text
\* without '@', and the value of the name holds a placeholder
ValueHoldsPlaceholder ==
    /\ BeginsPlaceholder(BuildBlock)
    /\ PlaceholderBody(BuildBlock) # <<>>
    /\ Known(NameOf(PlaceholderBody(BuildBlock)), BuildScope)
    /\ Placeholders(ValueOf(NameOf(PlaceholderBody(BuildBlock)), BuildScope)) # <<>>
    /\ \A k \in DOMAIN AfterPlaceholder(BuildBlock) : AfterPlaceholder(BuildBlock)[k] # CHAR_AT

\* C27 (as claimed): a value that itself holds a placeholder appears in the
\* build command as it is, character by character, whatever its length
\* against the placeholder it replaces; nothing of it is scanned again.
C27_ValueNotScannedAgain ==
    (main_pc # "getopt" /\ ValueHoldsPlaceholder) =>
        \A k \in BuildCommands :
            log[k].text = ValueOf(NameOf(PlaceholderBody(BuildBlock)), BuildScope)
                          \o AfterPlaceholder(BuildBlock)

-----------------------------------------------------------------------------
(* C28: the empty placeholder *)

\* s holds the empty placeholder "@()"
HoldsEmptyPlaceholder(s) == \E k \in DOMAIN Placeholders(s) : Placeholders(s)[k] = <<>>

\* no value of the scope holds an '@'
PlainValues(scope) ==
    \A k \in DOMAIN scope : \A m \in DOMAIN scope[k].value : scope[k].value[m] # CHAR_AT

\* C28 (as claimed): a build block that holds "@()", in a scope of values
\* without '@', is run with the "@()" kept and everything before and after
\* it expanded as if the "@()" were plain text, and it is not run when that
\* expansion has no result.
C28_EmptyPlaceholderKept ==
    (main_pc # "getopt" /\ HoldsEmptyPlaceholder(BuildBlock) /\ PlainValues(BuildScope)) =>
        /\ \A k \in BuildCommands : log[k].text = Expand(BuildBlock, BuildScope)
        /\ Expand(BuildBlock, BuildScope) = NULL_TEXT => BuildCommands = {}

-----------------------------------------------------------------------------
(* C29: source_dir *)

ShellStages == {"configure", "build", "install"}

\* the block of a shell stage of the recipe built, and the commands the
\* container ran for it
StageBlock(stage) ==
    IF stage = "configure" THEN config[Built].host_target.configure
    ELSE IF stage = "build" THEN config[Built].host_target.build
    ELSE config[Built].host_target.install

StageCommands(stage) == {k \in DOMAIN log : log[k].recipe = Built /\ log[k].cmd = stage}

\* the variable a stage declares last before source_dir, as a placeholder,
\* and its value
LastPlaceholder(stage) ==
    IF stage = "configure" THEN piece_build_dir
    ELSE IF stage = "build" THEN piece_thread_count
    ELSE piece_install_dir

LastValue(stage) ==
    IF stage = "configure" THEN value_chariot_build
    ELSE IF stage = "build" THEN value_eight
    ELSE value_chariot_install

\* C29: in the configure, the build and the install stage alike,
\* "@(source_dir)" is run as "/chariot/source" when the recipe has a source
\* and stops the recipe before the command when it has none,
\* "@(source_dir?)" is then run as the empty text, and the variable declared
\* last before source_dir has its value with or without a source.
C29_SourceDirOffered ==
    main_pc # "getopt" =>
        \A stage \in ShellStages :
            /\ (StageBlock(stage) = piece_source_dir /\ HasSource(Built)) =>
                  \A k \in StageCommands(stage) : log[k].text = value_chariot_source
            /\ (StageBlock(stage) = piece_source_dir /\ ~HasSource(Built)) =>
                  /\ StageCommands(stage) = {}
                  /\ started[Built] >= 1 =>
                        /\ status[Built].failed
                        /\ ~recipe_dirs[recipe_dir(config[Built])].exists
            /\ StageBlock(stage) = piece_source_dir_optional =>
                  \A k \in StageCommands(stage) :
                      log[k].text = IF HasSource(Built) THEN value_chariot_source ELSE <<>>
            /\ StageBlock(stage) = LastPlaceholder(stage) =>
                  \A k \in StageCommands(stage) : log[k].text = LastValue(stage)

\* a recipe without a source has run "@(source_dir?)" in all three stages
C29_Witness ==
    /\ ~HasSource(Built)
    /\ \A stage \in ShellStages :
          /\ StageBlock(stage) = piece_source_dir_optional
          /\ \E k \in StageCommands(stage) : log[k].text = <<>>

-----------------------------------------------------------------------------
(* C30: where an imported file is read from *)

\* the positions of the '/' of path
Slashes(path) == {k \in DOMAIN path : path[k] = CHAR_SLASH}

LastSlash(path) == CHOOSE k \in Slashes(path) : \A m \in Slashes(path) : k >= m

\* the directory of the file at path: "." for a path without '/', "/" for
\* a path whose only '/' is its first character, else what is before the
\* last '/'
DirectoryOf(path) ==
    IF Slashes(path) = {} THEN <<46>>
    ELSE IF LastSlash(path) = 1 THEN <<CHAR_SLASH>>
    ELSE SubSeq(path, 1, LastSlash(path) - 1)

\* a directory joined with the path of an @import line
JoinedWith(directory, line) ==
    IF directory = <<CHAR_SLASH>> THEN directory \o line
    ELSE directory \o <<CHAR_SLASH>> \o line

\* C30 (as claimed): whatever the path of the configuration file, every
\* file read for an @import line is read from the directory of the file
\* that holds the line, joined with the path the line gives.
C30_ImportFromIncludingDirectory ==
    \A k \in DOMAIN opened :
        k > 1 => opened[k] = JoinedWith(DirectoryOf(opened[k - 1]), config_file.imports[k - 1])

-----------------------------------------------------------------------------
(* C31: an archive is extracted only once its sum is verified *)

\* the source recipe (the one declared first) and its directory
Fetched == CHOOSE r \in DOMAIN config : config[r].namespace = RECIPE_NAMESPACE_SOURCE

IsArchive(r) == config[r].source.type \in {"tar.gz", "tar.xz"}

\* the names of the commands the container ran for recipe r, in order
CommandNames(r) ==
    LET ks == SelectSeq([k \in DOMAIN log |-> k], LAMBDA k : log[k].recipe = r)
    IN [i \in DOMAIN ks |-> log[ks[i]].cmd]

IsPrefix(s, t) == Len(s) <= Len(t) /\ s = SubSeq(t, 1, Len(s))

ExtractName(r) == IF config[r].source.type = "tar.gz" THEN "tar --gzip" ELSE "tar --zstd"

\* download, verify, extract, then the patch and the strap block declared
ArchiveCommands(r) ==
    <<"wget", "b2sum", ExtractName(r)>>
    \o (IF config[r].source.patch # NULL_STR THEN <<"patch">> ELSE <<>>)
    \o (IF config[r].source.strap # NULL_TEXT THEN <<"strap">> ELSE <<>>)

\* the position of the step called name among the steps of recipe r
StepOf(r, name) ==
    LET steps == stage_steps(config[r], params) IN
    CHOOSE k \in DOMAIN steps : steps[k].name = name /\ steps[k].kind # "embed"

Verified(r) == \E k \in DOMAIN log : log[k].recipe = r /\ log[k].cmd = "b2sum" /\ log[k].exit = 0

\* C31: for a tar.gz or tar.xz source the sums file is written before the
\* download, the commands run are download, verify, extract, patch, strap
\* in this order, the last three only after b2sum exited 0; a download or a
\* verification that exits non-zero is the last command of the recipe,
\* which ends failed with its directory deleted, so its directory holds
\* extracted content only when the sum was verified.
C31_ExtractAfterVerify ==
    (main_pc # "getopt" /\ IsArchive(Fetched)) =>
        /\ StepOf(Fetched, "write b2sums.txt") < StepOf(Fetched, "wget")
        /\ IsPrefix(CommandNames(Fetched), ArchiveCommands(Fetched))
        /\ \A k \in CommandsOf(Fetched) :
              log[k].cmd \in {ExtractName(Fetched), "patch", "strap"} =>
                  \E j \in 1..(k - 1) :
                      log[j].recipe = Fetched /\ log[j].cmd = "b2sum" /\ log[j].exit = 0
        /\ \A k \in CommandsOf(Fetched) :
              (log[k].cmd \in {"wget", "b2sum"} /\ log[k].exit # 0) =>
                  /\ \A j \in CommandsOf(Fetched) : j <= k
                  /\ status[Fetched].failed /\ ~status[Fetched].built
                  /\ ~recipe_dirs[recipe_dir(config[Fetched])].exists
        /\ (recipe_dirs[recipe_dir(config[Fetched])].exists
            /\ recipe_dirs[recipe_dir(config[Fetched])].written = run) => Verified(Fetched)

\* the download of a tar.xz source with a patch and a strap block exited 0
\* and its verification did not
C31_Witness ==
    /\ config[Fetched].source.type = "tar.xz"
    /\ config[Fetched].source.patch # NULL_STR /\ config[Fetched].source.strap # NULL_TEXT
    /\ CommandNames(Fetched) = <<"wget", "b2sum">>
    /\ ~Verified(Fetched)
    /\ status[Fetched].failed

-----------------------------------------------------------------------------
(* C32: what the patch command runs with *)

PatchCommands == {k \in CommandsOf(Fetched) : log[k].cmd = "patch"}

\* C32 (as claimed): the patch command of a source recipe runs in
\* /chariot/source with exactly two mounts, the recipe's src directory at
\* /chariot/source, then the patches directory at /chariot/patches
\* read-only; with the declared patch file absent neither patch nor strap
\* runs and the recipe fails.
C32_PatchMounts ==
    main_pc # "getopt" =>
        /\ \A k \in PatchCommands :
              /\ log[k].cc.cwd = "/chariot/source"
              /\ Len(log[k].cc.mounts) = 2
              /\ log[k].cc.mounts[1].src_path = recipe_dir(config[Fetched]) \o <<"src">>
              /\ log[k].cc.mounts[1].dest_path = "/chariot/source"
              /\ log[k].cc.mounts[2] = container_mount(<<"patches">>, "/chariot/patches", TRUE)
        /\ (config[Fetched].source.patch # NULL_STR /\ config[Fetched].source.patch \notin patches) =>
              /\ \A k \in CommandsOf(Fetched) : log[k].cmd \notin {"patch", "strap"}
              /\ started[Fetched] >= 1 => status[Fetched].failed /\ ~status[Fetched].built

-----------------------------------------------------------------------------
(* C33: the stages of a host or target recipe *)

\* the stages the recipe built declares, in the order of the stage table
DeclaredStages ==
    SelectSeq(<<"configure", "build", "install">>, LAMBDA stage : StageBlock(stage) # NULL_TEXT)

\* the stages whose expansion returned no text
FailedExpansions ==
    LET steps == stage_steps(config[Built], params) IN
    {k \in DOMAIN steps : steps[k].kind = "embed" /\ steps[k].text = NULL_TEXT}

\* every declared stage was run and exited 0
AllStagesPassed ==
    /\ CommandNames(Built) = DeclaredStages
    /\ \A k \in CommandsOf(Built) : log[k].exit = 0

\* C33: the stages run are the declared ones in the order configure,
\* build, install, up to the first that exits non-zero or whose expansion
\* fails, after which none is run; once the stage executor has run, the
\* recipe is built or failed, not both, and built exactly when every
\* declared stage exited 0.
C33_StagesInOrder ==
    main_pc # "getopt" =>
        /\ IsPrefix(CommandNames(Built), DeclaredStages)
        /\ \A k \in CommandsOf(Built) :
              log[k].exit # 0 => \A j \in CommandsOf(Built) : j <= k
        /\ \A k \in FailedExpansions :
              \A m \in k..Len(stage_steps(config[Built], params)) :
                  \A j \in CommandsOf(Built) :
                      log[j].cmd # stage_steps(config[Built], params)[m].name
        /\ started[Built] >= 1 =>
              /\ status[Built].built # status[Built].failed
              /\ status[Built].built => AllStagesPassed
              /\ (DeclaredStages # <<>> /\ AllStagesPassed) => status[Built].built

\* of three declared stages configure exited 0 and build did not
C33_Witness ==
    /\ Len(DeclaredStages) = 3
    /\ CommandNames(Built) = <<"configure", "build">>
    /\ \E k \in CommandsOf(Built) : log[k].cmd = "build" /\ log[k].exit # 0
    /\ status[Built].failed /\ ~status[Built].built

-----------------------------------------------------------------------------
(* C34: build/, cache/ and install/ when the stages start *)

\* the first command of recipe r in this run
FirstCommand(r) == CHOOSE k \in CommandsOf(r) : \A j \in CommandsOf(r) : k <= j

\* what the directory of recipe r held when this run began
Held(r) == previous.dirs[recipe_dir(config[r])]

\* C34: when the first stage of a host or target recipe starts, its build/
\* and install/ are empty, and its cache/ holds what it held before the
\* recipe was processed, or nothing with --clean-cache.
C34_DirectoriesPrepared ==
    main_pc # "getopt" =>
        \A r \in DOMAIN config :
            (IsHostTarget(config[r]) /\ CommandsOf(r) # {}) =>
                /\ log[FirstCommand(r)].dirs.build = {}
                /\ log[FirstCommand(r)].dirs.install = {}
                /\ log[FirstCommand(r)].dirs.cache =
                      IF params.clean_build_cache THEN {} ELSE Held(r).sub.cache

\* a recipe built by the run before is rebuilt without --clean-cache: its
\* three directories held something, and its first stage starts with
\* cache/ as it was
C34_Witness ==
    \E r \in DOMAIN config :
        /\ IsHostTarget(config[r]) /\ CommandsOf(r) # {}
        /\ ~params.clean_build_cache
        /\ Held(r).exists
        /\ Held(r).sub.build # {} /\ Held(r).sub.install # {} /\ Held(r).sub.cache # {}
        /\ log[FirstCommand(r)].dirs.cache = Held(r).sub.cache

-----------------------------------------------------------------------------
(* C35: a run ends *)

\* main has returned or the process has exited
Ended == main_pc \in {"done", "exit"}

\* "make -j@(x)"
block_build_x == <<109, 97, 107, 101, 32, 45, 106, 64, 40, 120, 41>>
\* "x=4 -l@(x)"
optarg_x_self == <<120, 61, 52, 32, 45, 108, 64, 40, 120, 41>>

\* no --var, or a variable x whose value names x after its first four
\* characters
TerminatesOptions == {<<>>, <<Option(OPT_VAR, optarg_x_self)>>}

\* a depends on nothing, b on a, c on a and b at run time, and c names the
\* source recipe b: a is shared by b and c, b is both the source and a
\* dependency of c
TerminatesEdges(kind) == [e \in Edges |-> IF e = <<2, 1>> THEN kind ELSE "runtime"]

\* The configurations of Init with these edges, the build block of c being
\* that of Init or one that names the variable x; every command line of
\* Init; with or without the variable x.
InitTerminates ==
    \E order \in NamespaceOrders, kind \in {"build", "runtime"},
       build \in {block_build, block_build_x} :
        /\ config_file = PresentFile(<<>>)
        /\ config = [i \in 1..3 |->
                        IF i = 3
                        THEN [ParsedRecipe(order, TerminatesEdges(kind), [j \in 1..3 |-> TRUE], i)
                                 EXCEPT !.host_target.build = build]
                        ELSE ParsedRecipe(order, TerminatesEdges(kind), [j \in 1..3 |-> TRUE], i)]
        /\ cfg_pc = "parsed"
        /\ argv \in CommandLines
        /\ status = [r \in 1..Len(config) |-> FreshStatus]
        /\ forced_recipes = <<>>
        /\ main_pc = "getopt" /\ main_i = 0
        /\ stack = <<>>
        /\ recipe_dirs = [key \in Namespaces \X Range(RecipeNames) |-> AbsentRecipeDir]
        /\ deps_dirs = EmptyDepsDirs
        /\ sets = <<>>
        /\ params = DefaultParams
        /\ options \in TerminatesOptions
        /\ run = 1
        /\ calls = <<>> /\ log = <<>>
        /\ started = [r \in 1..Len(config) |-> 0]
        /\ image_of = [r \in 1..Len(config) |-> NoImage]
        /\ previous = [dirs |-> recipe_dirs, built |-> {}]
        /\ config_path = config_path_default
        /\ opened = <<>>
        /\ patches = {}

\* the steps of the program that call nothing outside it but the library
ProgramStep ==
    \/ MainGetopt \/ MainConfigRead \/ MainInstallRootfs \/ MainForce
    \/ MainProcess \/ MainReturn
    \/ ProcessSource \/ ProcessDependency \/ ProcessCheck \/ ProcessClean

\* the call on top of the stack is about to run container commands
AtContainerStep == stack # <<>> /\ Top.pc \in {"setup", "stage"}

\* the steps that run container commands
ContainerStep == ProcessSetup \/ ProcessStages

\* The program is sequential: a step that can be taken is taken in the
\* end.  For the steps that run container commands this is the proviso that
\* each command terminates; it is weak fairness of ContainerStep written
\* out, ContainerStep being enabled exactly when AtContainerStep holds
\* (whatever the environment, a set-up and a list of stages have an
\* outcome).  No fairness is asked of NewRun: the tool need not be invoked
\* again.
Fairness ==
    /\ WF_vars(ProgramStep)
    /\ []<>(~AtContainerStep) \/ []<><<ContainerStep>>_vars

SpecTerminates == InitTerminates /\ [][Next]_vars /\ Fairness

\* C35: every run that begins ends, whatever the recipes named on the
\* command line, in a configuration whose graph of dependencies and source
\* references has no cycle and shares recipes between dependents: main
\* returns or the process exits after finitely many process_recipe calls,
\* provided each container command terminates.
C35_RunEnds == (main_pc = "getopt") ~> Ended

=============================================================================
